---- MODULE Spec2Model ----
(***************************************************************************)
(* ASTRA act model (astra_model/types.py, astra_model/schemas.py).         *)
(*                                                                         *)
(* The Pydantic models of types.py are modelled by their field tables      *)
(* (name, annotation, required, default) and their model_config, and the   *)
(* three operations the package is used through:                           *)
(*   model_validate_json  (decode / construct)        -> Validate          *)
(*   model_dump_json      (encode)                    -> Dump              *)
(*   ==                   (BaseModel.__eq__)          -> PyEq              *)
(* A JSON document is a tagged value; a decoded model instance keeps its   *)
(* class, its field values, its fields_set and its extra keys.             *)
(*                                                                         *)
(* The schema registry SCHEMAS of schemas.py is the dictionary of JSON     *)
(* Schema documents, read by key and walked through its sub-schemas; the   *)
(* utility functions of types.py (generate_act_id,                         *)
(* generate_conversation_id, create_base_act) are called with the UUID and *)
(* the clock reading they draw from their environment.                     *)
(***************************************************************************)
EXTENDS Integers, Sequences, FiniteSets, TLC

VARIABLES
    cls,        \* the model class the document is decoded as
    doc,        \* the JSON document handed to the decoder
    pc,         \* "input" -> "decoded" -> "encoded" -> "restored",
                \* or "decoded" -> "assigned"
    decoded,    \* result of cls.model_validate_json(doc)
    held,       \* the decoded instance as the caller holds it now
    encoded,    \* result of decoded.model_dump_json()
    restored,   \* result of cls.model_validate_json(encoded)
    regName,    \* the key SCHEMAS was read with
    regPath,    \* the keys followed from SCHEMAS[regName] down to regNode
    regNode,    \* the (sub-)schema reached
    fn,         \* the utility function or import statement that ran
    args,       \* its arguments
    env,        \* what it drew from its environment: uuid4() and now()
    ret         \* what it returned

decodeVars == <<cls, doc, pc, decoded, held, encoded, restored>>
registryVars == <<regName, regPath, regNode>>
utilVars == <<fn, args, env, ret>>
vars == <<decodeVars, registryVars, utilVars>>

(***************************************************************************)
(* JSON values (the wire format) and Python values (after validation).     *)
(***************************************************************************)
JNull == [k |-> "null"]
JStr(s) == [k |-> "str", s |-> s]
JNum(n) == [k |-> "num", n |-> n]
JBool(b) == [k |-> "bool", b |-> b]
JObj(o) == [k |-> "obj", o |-> o]
JArr(a) == [k |-> "arr", a |-> a]
EmptyObj == [z \in {} |-> JNull]

\* a member of a str-Enum class
PyEnum(s) == [k |-> "enum", s |-> s]
\* an instance of a BaseModel subclass: __class__, __dict__,
\* __pydantic_fields_set__ and __pydantic_extra__
PyModel(c, f, fset, extra) ==
    [k |-> "model", cls |-> c, f |-> f, set |-> fset, extra |-> extra]

\* o with key n bound to v (n replaced when present)
Put(o, n, v) == (n :> v) @@ o
\* o without key n
Del(o, n) == [x \in DOMAIN o \ {n} |-> o[x]]

(***************************************************************************)
(* Enumerations of types.py.                                               *)
(***************************************************************************)
Source == {"human", "speech_recognition", "text_analysis", "system", "ai"}
ActType == {"ask", "fact", "confirm", "commit", "error"}
ConstraintType ==
    {"required", "optional", "min_length", "max_length", "pattern", "format",
     "range", "enum", "custom"}
FormatType ==
    {"email", "phone", "url", "date", "time", "datetime", "uuid", "ipv4", "ipv6"}
ParticipantType == {"human", "ai", "system", "bot"}
ExpectedType ==
    {"string", "number", "boolean", "object", "array", "date", "email", "phone",
     "address"}
FieldOperation == {"set", "append", "increment", "decrement", "delete", "merge"}
ValidationStatus == {"pending", "valid", "invalid", "partial"}
ConfirmationMethod == {"verbal", "explicit", "implicit", "timeout", "system"}
CommitAction ==
    {"create", "update", "delete", "execute", "cancel", "pause", "resume"}
\* CommitStatus with the American spelling of its last member
CommitStatusCanceled ==
    {"pending", "in_progress", "success", "failed", "retrying", "canceled"}

CommitStatus ==
    {"pending", "in_progress", "success", "failed", "retrying", "cancelled"}
ErrorSeverity == {"info", "warning", "error", "critical"}
ErrorCategory ==
    {"validation", "processing", "integration", "timeout", "permission",
     "system", "user_input", "business_rule"}
SuggestedAction ==
    {"retry", "escalate", "ignore", "clarify", "fallback", "terminate"}
ConversationStatus == {"active", "paused", "completed", "failed", "cancelled"}

(***************************************************************************)
(* Field annotations.                                                      *)
(***************************************************************************)
TStr == [t |-> "str"]
TBool == [t |-> "bool"]
TAny == [t |-> "any"]
TDict == [t |-> "dict"]                              \* Dict[str, Any]
TFloat == [t |-> "float", ge |-> FALSE, le |-> FALSE]
TFloat01 == [t |-> "float", ge |-> TRUE, lo |-> 0, le |-> TRUE, hi |-> 1]
TInt == [t |-> "int", ge |-> FALSE]
\* an int that must be positive: the bound of ge=0 made exclusive
TIntGt0 == [t |-> "int", ge |-> TRUE, lo |-> 1]
TIntGe0 == [t |-> "int", ge |-> TRUE, lo |-> 0]
TEnum(vals) == [t |-> "enum", vals |-> vals]
TOpt(ty) == [t |-> "opt", of |-> ty]                 \* Optional[ty]
TList(ty) == [t |-> "list", of |-> ty]               \* List[ty]
TModel(c) == [t |-> "model", cls |-> c]
TUnion(tys) == [t |-> "union", of |-> tys]           \* Union[...], in order

\* Field(...) : required
Req(n, ty) == [name |-> n, ty |-> ty, req |-> TRUE, def |-> JNull]
\* Field(None, ...) on an Optional annotation
Opt(n, ty) == [name |-> n, ty |-> TOpt(ty), req |-> FALSE, def |-> JNull]
\* Field(<default>, ...)
Dflt(n, ty, d) == [name |-> n, ty |-> ty, req |-> FALSE, def |-> d]

\* EntityRef = Union[str, Entity]
EntityRef == TUnion(<<TStr, TModel("Entity")>>)

\* ConversationAct = Union[Ask, Fact, Confirm, Commit, Error]
ConversationAct ==
    TUnion(<<TModel("Ask"), TModel("Fact"), TModel("Confirm"), TModel("Commit"),
             TModel("Error")>>)

ActMetadataFields ==
    <<Opt("channel", TStr), Opt("language", TStr), Opt("original_text", TStr),
      Opt("processing_time_ms", TInt)>>

\* class Act: the fields every variant inherits (type is redeclared by each)
ActBaseFields ==
    <<Req("id", TStr), Req("timestamp", TStr), Req("speaker", TStr)>>

ActTailFields ==
    <<Opt("confidence", TFloat01), Opt("source", TEnum(Source)),
      Opt("metadata", TModel("ActMetadata"))>>

ActFields ==
    ActBaseFields \o <<Req("type", TEnum(ActType))>> \o ActTailFields

\* an Entity whose type may be left out
EntityFieldsTypeOptional ==
    <<Req("id", TStr), Opt("type", TStr), Opt("external_id", TStr),
      Opt("system", TStr), Opt("version", TStr), Opt("schema_url", TStr),
      Opt("metadata", TDict)>>

EntityFields ==
    <<Req("id", TStr), Req("type", TStr), Opt("external_id", TStr),
      Opt("system", TStr), Opt("version", TStr), Opt("schema_url", TStr),
      Opt("metadata", TDict)>>

RangeConstraintFields ==
    <<Opt("min", TFloat), Opt("max", TFloat),
      Dflt("inclusive", TOpt(TBool), JBool(TRUE))>>

ConstraintFields ==
    <<Req("type", TEnum(ConstraintType)),
      Opt("value", TUnion(<<TInt, TFloat, TStr, TEnum(FormatType),
                            TModel("RangeConstraint"), TList(TStr)>>)),
      Opt("message", TStr), Opt("code", TStr)>>

ParticipantPreferencesFields ==
    <<Opt("language", TStr), Opt("timezone", TStr),
      Opt("communication_channels", TList(TStr))>>

ParticipantFields ==
    <<Req("id", TStr), Req("type", TEnum(ParticipantType)), Opt("role", TStr),
      Opt("name", TStr), Opt("email", TStr), Opt("phone", TStr),
      Opt("external_id", TStr), Opt("system", TStr),
      Opt("capabilities", TList(TStr)), Opt("permissions", TList(TStr)),
      Opt("preferences", TModel("ParticipantPreferences")),
      Opt("metadata", TDict)>>

\* the type field of a variant: ActType with the variant's tag as default
TagField(tag) == Dflt("type", TEnum(ActType), PyEnum(tag))

AskFields ==
    ActBaseFields \o <<TagField("ask")>> \o ActTailFields \o
    <<Req("field", TStr), Req("prompt", TStr),
      Opt("constraints", TList(TModel("Constraint"))), Opt("required", TBool),
      Opt("expected_type", TEnum(ExpectedType)), Opt("retry_count", TIntGe0),
      Opt("max_retries", TIntGe0)>>

\* a value field that may be left out
FactValueOptional == Opt("value", TAny)

\* Fact.value: Any = Field(...)
FactValueField == Req("value", TAny)

FactFields ==
    ActBaseFields \o <<TagField("fact")>> \o ActTailFields \o
    <<Req("entity", EntityRef), Req("field", TStr), FactValueField,
      Opt("operation", TEnum(FieldOperation)), Opt("previous_value", TAny),
      Opt("validation_status", TEnum(ValidationStatus)),
      Opt("validation_errors", TList(TStr))>>

ConfirmFields ==
    ActBaseFields \o <<TagField("confirm")>> \o ActTailFields \o
    <<Req("entity", EntityRef), Req("summary", TStr), Opt("awaiting", TBool),
      Opt("confirmed", TBool),
      Opt("confirmation_method", TEnum(ConfirmationMethod)),
      Opt("fields_confirmed", TList(TStr)), Opt("rejection_reason", TStr),
      Opt("timeout_ms", TIntGe0)>>

CommitErrorFields ==
    <<Req("code", TStr), Req("message", TStr), Opt("details", TDict),
      Req("recoverable", TBool)>>

CommitFields ==
    ActBaseFields \o <<TagField("commit")>> \o ActTailFields \o
    <<Req("entity", EntityRef), Req("action", TEnum(CommitAction)),
      Opt("system", TStr), Opt("transaction_id", TStr),
      Opt("status", TEnum(CommitStatus)), Opt("error", TModel("CommitError")),
      Opt("retry_count", TIntGe0), Opt("max_retries", TIntGe0),
      Opt("idempotency_key", TStr), Opt("rollback_info", TDict)>>

ErrorFields ==
    ActBaseFields \o <<TagField("error")>> \o ActTailFields \o
    <<Req("code", TStr), Req("message", TStr), Req("recoverable", TBool),
      Opt("severity", TEnum(ErrorSeverity)),
      Opt("category", TEnum(ErrorCategory)), Opt("details", TDict),
      Opt("related_act_id", TStr),
      Opt("suggested_action", TEnum(SuggestedAction)),
      Opt("user_message", TStr), Opt("stack_trace", TStr)>>

ConversationContextFields ==
    <<Opt("session_id", TStr), Opt("user_agent", TStr), Opt("ip_address", TStr),
      Opt("referrer", TStr)>>

ConversationMetadataFields ==
    <<Opt("total_duration_ms", TIntGe0), Opt("act_count", TIntGe0),
      Opt("error_count", TIntGe0), Opt("commit_count", TIntGe0),
      Opt("avg_confidence", TFloat01)>>

\* Conversation.participants: List[Participant] = Field(...)
ParticipantsField == Req("participants", TList(TModel("Participant")))

ConversationFields ==
    <<Req("id", TStr), ParticipantsField, Req("acts", TList(ConversationAct)),
      Opt("started_at", TStr), Opt("ended_at", TStr),
      Opt("status", TEnum(ConversationStatus)), Opt("channel", TStr),
      Opt("business_schema", TStr),
      Opt("context", TModel("ConversationContext")), Opt("final_state", TDict),
      Opt("metadata", TModel("ConversationMetadata"))>>

ActClasses == {"Ask", "Fact", "Confirm", "Commit", "Error"}

\* the tag each variant is documented to carry
TagOf(c) ==
    CASE c = "Ask" -> "ask" [] c = "Fact" -> "fact" [] c = "Confirm" -> "confirm"
      [] c = "Commit" -> "commit" [] c = "Error" -> "error"

ModelFields(c) ==
    CASE c = "Act" -> ActFields
      [] c = "ActMetadata" -> ActMetadataFields
      [] c = "Entity" -> EntityFields
      [] c = "RangeConstraint" -> RangeConstraintFields
      [] c = "Constraint" -> ConstraintFields
      [] c = "ParticipantPreferences" -> ParticipantPreferencesFields
      [] c = "Participant" -> ParticipantFields
      [] c = "Ask" -> AskFields
      [] c = "Fact" -> FactFields
      [] c = "Confirm" -> ConfirmFields
      [] c = "CommitError" -> CommitErrorFields
      [] c = "Commit" -> CommitFields
      [] c = "Error" -> ErrorFields
      [] c = "ConversationContext" -> ConversationContextFields
      [] c = "ConversationMetadata" -> ConversationMetadataFields
      [] c = "Conversation" -> ConversationFields

\* model_config = ConfigDict(extra=...) of the class; Act's is inherited by
\* the five variants; a class that sets none has Pydantic's default, "ignore"
ActExtraIgnore == "ignore"
ActExtra == "forbid"
ConversationExtra == "forbid"
\* the open classes dropping the keys they do not declare
ModelExtraDropping(c) ==
    CASE c \in ActClasses \cup {"Act"} -> ActExtra
      [] c = "Conversation" -> ConversationExtra
      [] OTHER -> "ignore"

ModelExtra(c) ==
    CASE c \in ActClasses \cup {"Act"} -> ActExtra
      [] c = "Conversation" -> ConversationExtra
      [] c \in {"ActMetadata", "Entity", "ParticipantPreferences", "Participant",
                "ConversationContext", "ConversationMetadata"} -> "allow"
      [] OTHER -> "ignore"

(***************************************************************************)
(* Validation (model_validate_json / the class constructor).               *)
(* Lax-mode coercions of numeric strings and of booleans to numbers are    *)
(* not modelled; the documents drawn below contain no such value in a      *)
(* numeric or boolean field.                                               *)
(***************************************************************************)
Ok(v) == [ok |-> TRUE, v |-> v]
Fail == [ok |-> FALSE, v |-> JNull]

SetMin(S) == CHOOSE x \in S : \A y \in S : x <= y

\* the function f with every value computed (once)
Eager(f) == f @@ EmptyObj

ModelClasses ==
    {"Act", "ActMetadata", "Entity", "RangeConstraint", "Constraint",
     "ParticipantPreferences", "Participant", "Ask", "Fact", "Confirm",
     "CommitError", "Commit", "Error", "ConversationContext",
     "ConversationMetadata", "Conversation"}

\* model_fields of each class: field name -> field
FieldIndex ==
    Eager([c \in ModelClasses |->
             Eager([n \in {ModelFields(c)[i].name : i \in DOMAIN ModelFields(c)} |->
                      ModelFields(c)[CHOOSE i \in DOMAIN ModelFields(c) :
                                       ModelFields(c)[i].name = n]])])

FieldNames(c) == DOMAIN FieldIndex[c]
FieldOf(c, n) == FieldIndex[c][n]

NumInRange(ty, n) ==
    /\ (ty.ge => n >= ty.lo)
    /\ (ty.t = "float" /\ ty.le => n <= ty.hi)

RECURSIVE Validate(_, _)
RECURSIVE ValidateModel(_, _)

\* Union[...]: the members are disjoint on the JSON shapes they accept, so
\* smart mode returns the one member that validates (the first, in order)
ValidateUnion(tys, j) ==
    LET rs == Eager([i \in DOMAIN tys |-> Validate(tys[i], j)])
        oks == {i \in DOMAIN tys : rs[i].ok}
    IN  IF oks = {} THEN Fail ELSE rs[SetMin(oks)]

\* a list handed back in reverse
ValidateListReversed(ty, j) ==
    IF j.k # "arr" THEN Fail
    ELSE LET rs == Eager([i \in DOMAIN j.a |-> Validate(ty, j.a[i])])
         IN  IF \E i \in DOMAIN j.a : ~rs[i].ok THEN Fail
             ELSE Ok(JArr([i \in DOMAIN j.a |-> rs[Len(j.a) + 1 - i].v]))

\* a list whose elements must differ in their id
ValidateListDistinctIds(ty, j) ==
    IF j.k # "arr" THEN Fail
    ELSE LET rs == Eager([i \in DOMAIN j.a |-> Validate(ty, j.a[i])])
             ids == [i \in DOMAIN j.a |->
                       IF j.a[i].k = "obj" /\ "id" \in DOMAIN j.a[i].o
                       THEN j.a[i].o.id ELSE JNum(i)]
         IN  IF \/ \E i \in DOMAIN j.a : ~rs[i].ok
                \/ \E a, b \in DOMAIN j.a : a # b /\ ids[a] = ids[b]
             THEN Fail
             ELSE Ok(JArr([i \in DOMAIN j.a |-> rs[i].v]))

ValidateList(ty, j) ==
    IF j.k # "arr" THEN Fail
    ELSE LET rs == Eager([i \in DOMAIN j.a |-> Validate(ty, j.a[i])])
         IN  IF \E i \in DOMAIN j.a : ~rs[i].ok THEN Fail
             ELSE Ok(JArr([i \in DOMAIN j.a |-> rs[i].v]))

Validate(ty, j) ==
    CASE ty.t = "str" -> IF j.k = "str" THEN Ok(j) ELSE Fail
      [] ty.t = "bool" -> IF j.k = "bool" THEN Ok(j) ELSE Fail
      [] ty.t = "any" -> Ok(j)
      [] ty.t = "dict" -> IF j.k = "obj" THEN Ok(j) ELSE Fail
      [] ty.t \in {"int", "float"} ->
            IF j.k = "num" /\ NumInRange(ty, j.n) THEN Ok(j) ELSE Fail
      [] ty.t = "enum" ->
            IF j.k = "str" /\ j.s \in ty.vals THEN Ok(PyEnum(j.s)) ELSE Fail
      [] ty.t = "opt" -> IF j.k = "null" THEN Ok(JNull) ELSE Validate(ty.of, j)
      [] ty.t = "list" -> ValidateList(ty.of, j)
      [] ty.t = "model" -> ValidateModel(ty.cls, j)
      [] ty.t = "union" -> ValidateUnion(ty.of, j)

\* one model class against a JSON object: every key that names a field is
\* validated against the field's annotation, a missing field takes its
\* default unless it is required, and a key that names no field is handled
\* as model_config's extra says
ValidateModel(c, j) ==
    IF j.k # "obj" THEN Fail
    ELSE LET names == FieldNames(c)
             given == DOMAIN j.o
             extras == given \ names
             rs == Eager([n \in names |->
                      IF n \in given THEN Validate(FieldOf(c, n).ty, j.o[n])
                      ELSE IF FieldOf(c, n).req THEN Fail
                      ELSE Ok(FieldOf(c, n).def)])
         IN  IF \E n \in names : ~rs[n].ok THEN Fail
             ELSE IF ModelExtra(c) = "forbid" /\ extras # {} THEN Fail
             ELSE Ok(PyModel(c, [n \in names |-> rs[n].v], given \cap names,
                             IF ModelExtra(c) = "allow"
                             THEN [e \in extras |-> j.o[e]] ELSE EmptyObj))

(***************************************************************************)
(* Serialisation (model_dump_json with its default arguments).             *)
(***************************************************************************)
RECURSIVE Dump(_)

\* every declared field is written, a None as null, then the extra keys
DumpModel(v) ==
    JObj([n \in DOMAIN v.f \cup DOMAIN v.extra |->
            IF n \in DOMAIN v.f THEN Dump(v.f[n]) ELSE v.extra[n]])

Dump(v) ==
    CASE v.k = "model" -> DumpModel(v)
      [] v.k = "enum" -> JStr(v.s)
      [] v.k = "arr" -> JArr([i \in DOMAIN v.a |-> Dump(v.a[i])])
      [] OTHER -> v

(***************************************************************************)
(* Equality (BaseModel.__eq__): same class, same field values, same extra  *)
(* keys; __pydantic_fields_set__ takes no part.                            *)
(***************************************************************************)
RECURSIVE Strip(_)
Strip(v) ==
    CASE v.k = "model" ->
            [k |-> "model", cls |-> v.cls,
             f |-> [n \in DOMAIN v.f |-> Strip(v.f[n])], extra |-> v.extra]
      [] v.k = "arr" -> JArr([i \in DOMAIN v.a |-> Strip(v.a[i])])
      [] OTHER -> v

PyEq(a, b) == Strip(a) = Strip(b)

(***************************************************************************)
(* Strings and the identifier patterns.  A string is read character by     *)
(* character: Char(s, i) is its i-th character.                            *)
(***************************************************************************)
Char(s, i) == SubSeq(s, i, i)
StartsWith(s, p) == Len(s) >= Len(p) /\ SubSeq(s, 1, Len(p)) = p

LowerChars ==
    {"a", "b", "c", "d", "e", "f", "g", "h", "i", "j", "k", "l", "m", "n", "o",
     "p", "q", "r", "s", "t", "u", "v", "w", "x", "y", "z"}
UpperChars ==
    {"A", "B", "C", "D", "E", "F", "G", "H", "I", "J", "K", "L", "M", "N", "O",
     "P", "Q", "R", "S", "T", "U", "V", "W", "X", "Y", "Z"}
DigitChars == {"0", "1", "2", "3", "4", "5", "6", "7", "8", "9"}

\* the class [a-zA-Z0-9_-]
IdChars == LowerChars \cup UpperChars \cup DigitChars \cup {"_", "-"}

\* ^<prefix>[a-zA-Z0-9_-]+$
MatchesId(prefix, s) ==
    /\ StartsWith(s, prefix)
    /\ Len(s) > Len(prefix)
    /\ \A i \in (Len(prefix) + 1)..Len(s) : Char(s, i) \in IdChars

\* ^[a-z]{2}(-[A-Z]{2})?$
MatchesLanguage(s) ==
    /\ Len(s) \in {2, 5}
    /\ \A i \in 1..2 : Char(s, i) \in LowerChars
    /\ Len(s) = 5 => /\ Char(s, 3) = "-"
                     /\ \A i \in 4..5 : Char(s, i) \in UpperChars

ActIdPattern == "^act_[a-zA-Z0-9_-]+$"
ConversationIdPattern == "^conv_[a-zA-Z0-9_-]+$"
LanguagePattern == "^[a-z]{2}(-[A-Z]{2})?$"

\* the three regular expressions the schemas use, matched against s
Matches(pattern, s) ==
    CASE pattern = ActIdPattern -> MatchesId("act_", s)
      [] pattern = ConversationIdPattern -> MatchesId("conv_", s)
      [] pattern = LanguagePattern -> MatchesLanguage(s)

(***************************************************************************)
(* The schema registry (schemas.py): SCHEMAS maps a name to a JSON Schema  *)
(* document.  Each document is written out as the dictionary literal of    *)
(* the source, keyword by keyword; the "description" annotations, which no *)
(* keyword reads, are left out.                                            *)
(***************************************************************************)
\* SCHEMAS["act"]
ActSchema ==
    JObj(("$schema" :> JStr("https://json-schema.org/draft/2020-12/schema")) @@
         ("$id" :> JStr("https://schemas.astra.dev/v1/act.json")) @@
         ("title" :> JStr("Act")) @@
         ("type" :> JStr("object")) @@
         ("required" :>
             JArr(<<JStr("id"), JStr("timestamp"), JStr("speaker"),
                    JStr("type")>>)) @@
         ("properties" :>
             JObj(("id" :>
                      JObj(("type" :> JStr("string")) @@
                           ("pattern" :> JStr("^act_[a-zA-Z0-9_-]+$")))) @@
                  ("timestamp" :>
                      JObj(("type" :> JStr("string")) @@
                           ("format" :> JStr("date-time")))) @@
                  ("speaker" :> JObj(("type" :> JStr("string")))) @@
                  ("type" :>
                      JObj(("type" :> JStr("string")) @@
                           ("enum" :>
                               JArr(<<JStr("ask"), JStr("fact"),
                                      JStr("confirm"), JStr("commit"),
                                      JStr("error")>>)))) @@
                  ("confidence" :>
                      JObj(("type" :> JStr("number")) @@
                           ("minimum" :> JNum(0)) @@
                           ("maximum" :> JNum(1)))) @@
                  ("source" :>
                      JObj(("type" :> JStr("string")) @@
                           ("enum" :>
                               JArr(<<JStr("human"),
                                      JStr("speech_recognition"),
                                      JStr("text_analysis"), JStr("system"),
                                      JStr("ai")>>)))) @@
                  ("metadata" :>
                      JObj(("type" :> JStr("object")) @@
                           ("properties" :>
                               JObj(("channel" :>
                                        JObj(("type" :> JStr("string")))) @@
                                    ("language" :>
                                        JObj(("type" :> JStr("string")) @@
                                             ("pattern" :>
                                                 JStr("^[a-z]{2}(-[A-Z]{2})?$")))) @@
                                    ("original_text" :>
                                        JObj(("type" :> JStr("string")))) @@
                                    ("processing_time_ms" :>
                                        JObj(("type" :> JStr("number")) @@
                                             ("minimum" :> JNum(0)))))) @@
                           ("additionalProperties" :> JBool(TRUE)))))) @@
         ("additionalProperties" :> JBool(FALSE)))

\* SCHEMAS["ask"]
AskSchema ==
    JObj(("$schema" :> JStr("https://json-schema.org/draft/2020-12/schema")) @@
         ("$id" :> JStr("https://schemas.astra.dev/v1/ask.json")) @@
         ("title" :> JStr("Ask")) @@
         ("type" :> JStr("object")) @@
         ("required" :>
             JArr(<<JStr("id"), JStr("timestamp"), JStr("speaker"),
                    JStr("type"), JStr("field"), JStr("prompt")>>)) @@
         ("properties" :>
             JObj(("id" :>
                      JObj(("type" :> JStr("string")) @@
                           ("pattern" :> JStr("^act_[a-zA-Z0-9_-]+$")))) @@
                  ("timestamp" :>
                      JObj(("type" :> JStr("string")) @@
                           ("format" :> JStr("date-time")))) @@
                  ("speaker" :> JObj(("type" :> JStr("string")))) @@
                  ("type" :> JObj(("const" :> JStr("ask")))) @@
                  ("confidence" :>
                      JObj(("type" :> JStr("number")) @@
                           ("minimum" :> JNum(0)) @@
                           ("maximum" :> JNum(1)))) @@
                  ("source" :>
                      JObj(("type" :> JStr("string")) @@
                           ("enum" :>
                               JArr(<<JStr("human"),
                                      JStr("speech_recognition"),
                                      JStr("text_analysis"), JStr("system"),
                                      JStr("ai")>>)))) @@
                  ("metadata" :>
                      JObj(("type" :> JStr("object")) @@
                           ("additionalProperties" :> JBool(TRUE)))) @@
                  ("field" :> JObj(("type" :> JStr("string")))) @@
                  ("prompt" :> JObj(("type" :> JStr("string")))) @@
                  ("constraints" :>
                      JObj(("type" :> JStr("array")) @@
                           ("items" :>
                               JObj(("type" :> JStr("object")) @@
                                    ("required" :> JArr(<<JStr("type")>>)) @@
                                    ("properties" :>
                                        JObj(("type" :>
                                                 JObj(("type" :>
                                                          JStr("string")) @@
                                                      ("enum" :>
                                                          JArr(<<JStr("required"),
                                                                 JStr("optional"),
                                                                 JStr("min_length"),
                                                                 JStr("max_length"),
                                                                 JStr("pattern"),
                                                                 JStr("format"),
                                                                 JStr("range"),
                                                                 JStr("enum"),
                                                                 JStr("custom")>>)))) @@
                                             ("value" :> JObj(EmptyObj)) @@
                                             ("message" :>
                                                 JObj(("type" :>
                                                          JStr("string")))) @@
                                             ("code" :>
                                                 JObj(("type" :>
                                                          JStr("string")))))))))) @@
                  ("required" :>
                      JObj(("type" :> JStr("boolean")) @@
                           ("default" :> JBool(TRUE)))) @@
                  ("expected_type" :>
                      JObj(("type" :> JStr("string")) @@
                           ("enum" :>
                               JArr(<<JStr("string"), JStr("number"),
                                      JStr("boolean"), JStr("object"),
                                      JStr("array"), JStr("date"),
                                      JStr("email"), JStr("phone"),
                                      JStr("address")>>)))) @@
                  ("retry_count" :>
                      JObj(("type" :> JStr("integer")) @@
                           ("minimum" :> JNum(0)) @@
                           ("default" :> JNum(0)))) @@
                  ("max_retries" :>
                      JObj(("type" :> JStr("integer")) @@
                           ("minimum" :> JNum(0)) @@
                           ("default" :> JNum(3)))))) @@
         ("additionalProperties" :> JBool(FALSE)))

\* SCHEMAS["fact"]
FactSchema ==
    JObj(("$schema" :> JStr("https://json-schema.org/draft/2020-12/schema")) @@
         ("$id" :> JStr("https://schemas.astra.dev/v1/fact.json")) @@
         ("title" :> JStr("Fact")) @@
         ("type" :> JStr("object")) @@
         ("required" :>
             JArr(<<JStr("id"), JStr("timestamp"), JStr("speaker"),
                    JStr("type"), JStr("entity"), JStr("field"),
                    JStr("value")>>)) @@
         ("properties" :>
             JObj(("id" :>
                      JObj(("type" :> JStr("string")) @@
                           ("pattern" :> JStr("^act_[a-zA-Z0-9_-]+$")))) @@
                  ("timestamp" :>
                      JObj(("type" :> JStr("string")) @@
                           ("format" :> JStr("date-time")))) @@
                  ("speaker" :> JObj(("type" :> JStr("string")))) @@
                  ("type" :> JObj(("const" :> JStr("fact")))) @@
                  ("confidence" :>
                      JObj(("type" :> JStr("number")) @@
                           ("minimum" :> JNum(0)) @@
                           ("maximum" :> JNum(1)))) @@
                  ("source" :>
                      JObj(("type" :> JStr("string")) @@
                           ("enum" :>
                               JArr(<<JStr("human"),
                                      JStr("speech_recognition"),
                                      JStr("text_analysis"), JStr("system"),
                                      JStr("ai")>>)))) @@
                  ("metadata" :>
                      JObj(("type" :> JStr("object")) @@
                           ("additionalProperties" :> JBool(TRUE)))) @@
                  ("entity" :>
                      JObj(("oneOf" :>
                               JArr(<<JObj(("type" :> JStr("string"))),
                                      JObj(("type" :> JStr("object")) @@
                                           ("required" :>
                                               JArr(<<JStr("id"),
                                                      JStr("type")>>)) @@
                                           ("properties" :>
                                               JObj(("id" :>
                                                        JObj(("type" :>
                                                                 JStr("string")))) @@
                                                    ("type" :>
                                                        JObj(("type" :>
                                                                 JStr("string")))) @@
                                                    ("external_id" :>
                                                        JObj(("type" :>
                                                                 JStr("string")))) @@
                                                    ("system" :>
                                                        JObj(("type" :>
                                                                 JStr("string")))) @@
                                                    ("version" :>
                                                        JObj(("type" :>
                                                                 JStr("string")))) @@
                                                    ("schema_url" :>
                                                        JObj(("type" :>
                                                                 JStr("string")) @@
                                                             ("format" :>
                                                                 JStr("uri")))) @@
                                                    ("metadata" :>
                                                        JObj(("type" :>
                                                                 JStr("object")) @@
                                                             ("additionalProperties" :>
                                                                 JBool(TRUE)))))) @@
                                           ("additionalProperties" :>
                                               JBool(FALSE)))>>)))) @@
                  ("field" :> JObj(("type" :> JStr("string")))) @@
                  ("value" :> JObj(EmptyObj)) @@
                  ("operation" :>
                      JObj(("type" :> JStr("string")) @@
                           ("enum" :>
                               JArr(<<JStr("set"), JStr("append"),
                                      JStr("increment"), JStr("decrement"),
                                      JStr("delete"), JStr("merge")>>)) @@
                           ("default" :> JStr("set")))) @@
                  ("previous_value" :> JObj(EmptyObj)) @@
                  ("validation_status" :>
                      JObj(("type" :> JStr("string")) @@
                           ("enum" :>
                               JArr(<<JStr("pending"), JStr("valid"),
                                      JStr("invalid"), JStr("partial")>>)) @@
                           ("default" :> JStr("pending")))) @@
                  ("validation_errors" :>
                      JObj(("type" :> JStr("array")) @@
                           ("items" :> JObj(("type" :> JStr("string")))))))) @@
         ("additionalProperties" :> JBool(FALSE)))

\* SCHEMAS["confirm"]
ConfirmSchema ==
    JObj(("$schema" :> JStr("https://json-schema.org/draft/2020-12/schema")) @@
         ("$id" :> JStr("https://schemas.astra.dev/v1/confirm.json")) @@
         ("title" :> JStr("Confirm")) @@
         ("type" :> JStr("object")) @@
         ("required" :>
             JArr(<<JStr("id"), JStr("timestamp"), JStr("speaker"),
                    JStr("type"), JStr("entity"), JStr("summary")>>)) @@
         ("properties" :>
             JObj(("id" :>
                      JObj(("type" :> JStr("string")) @@
                           ("pattern" :> JStr("^act_[a-zA-Z0-9_-]+$")))) @@
                  ("timestamp" :>
                      JObj(("type" :> JStr("string")) @@
                           ("format" :> JStr("date-time")))) @@
                  ("speaker" :> JObj(("type" :> JStr("string")))) @@
                  ("type" :> JObj(("const" :> JStr("confirm")))) @@
                  ("confidence" :>
                      JObj(("type" :> JStr("number")) @@
                           ("minimum" :> JNum(0)) @@
                           ("maximum" :> JNum(1)))) @@
                  ("source" :>
                      JObj(("type" :> JStr("string")) @@
                           ("enum" :>
                               JArr(<<JStr("human"),
                                      JStr("speech_recognition"),
                                      JStr("text_analysis"), JStr("system"),
                                      JStr("ai")>>)))) @@
                  ("metadata" :>
                      JObj(("type" :> JStr("object")) @@
                           ("additionalProperties" :> JBool(TRUE)))) @@
                  ("entity" :>
                      JObj(("oneOf" :>
                               JArr(<<JObj(("type" :> JStr("string"))),
                                      JObj(("type" :> JStr("object")) @@
                                           ("required" :>
                                               JArr(<<JStr("id"),
                                                      JStr("type")>>)) @@
                                           ("properties" :>
                                               JObj(("id" :>
                                                        JObj(("type" :>
                                                                 JStr("string")))) @@
                                                    ("type" :>
                                                        JObj(("type" :>
                                                                 JStr("string")))) @@
                                                    ("external_id" :>
                                                        JObj(("type" :>
                                                                 JStr("string")))) @@
                                                    ("system" :>
                                                        JObj(("type" :>
                                                                 JStr("string")))) @@
                                                    ("version" :>
                                                        JObj(("type" :>
                                                                 JStr("string")))) @@
                                                    ("schema_url" :>
                                                        JObj(("type" :>
                                                                 JStr("string")) @@
                                                             ("format" :>
                                                                 JStr("uri")))) @@
                                                    ("metadata" :>
                                                        JObj(("type" :>
                                                                 JStr("object")) @@
                                                             ("additionalProperties" :>
                                                                 JBool(TRUE)))))) @@
                                           ("additionalProperties" :>
                                               JBool(FALSE)))>>)))) @@
                  ("summary" :> JObj(("type" :> JStr("string")))) @@
                  ("awaiting" :>
                      JObj(("type" :> JStr("boolean")) @@
                           ("default" :> JBool(TRUE)))) @@
                  ("confirmed" :> JObj(("type" :> JStr("boolean")))) @@
                  ("confirmation_method" :>
                      JObj(("type" :> JStr("string")) @@
                           ("enum" :>
                               JArr(<<JStr("verbal"), JStr("explicit"),
                                      JStr("implicit"), JStr("timeout"),
                                      JStr("system")>>)))) @@
                  ("fields_confirmed" :>
                      JObj(("type" :> JStr("array")) @@
                           ("items" :> JObj(("type" :> JStr("string")))))) @@
                  ("rejection_reason" :> JObj(("type" :> JStr("string")))) @@
                  ("timeout_ms" :>
                      JObj(("type" :> JStr("integer")) @@
                           ("minimum" :> JNum(0)))))) @@
         ("additionalProperties" :> JBool(FALSE)))

\* SCHEMAS["commit"]
CommitSchema ==
    JObj(("$schema" :> JStr("https://json-schema.org/draft/2020-12/schema")) @@
         ("$id" :> JStr("https://schemas.astra.dev/v1/commit.json")) @@
         ("title" :> JStr("Commit")) @@
         ("type" :> JStr("object")) @@
         ("required" :>
             JArr(<<JStr("id"), JStr("timestamp"), JStr("speaker"),
                    JStr("type"), JStr("entity"), JStr("action")>>)) @@
         ("properties" :>
             JObj(("id" :>
                      JObj(("type" :> JStr("string")) @@
                           ("pattern" :> JStr("^act_[a-zA-Z0-9_-]+$")))) @@
                  ("timestamp" :>
                      JObj(("type" :> JStr("string")) @@
                           ("format" :> JStr("date-time")))) @@
                  ("speaker" :> JObj(("type" :> JStr("string")))) @@
                  ("type" :> JObj(("const" :> JStr("commit")))) @@
                  ("confidence" :>
                      JObj(("type" :> JStr("number")) @@
                           ("minimum" :> JNum(0)) @@
                           ("maximum" :> JNum(1)))) @@
                  ("source" :>
                      JObj(("type" :> JStr("string")) @@
                           ("enum" :>
                               JArr(<<JStr("human"),
                                      JStr("speech_recognition"),
                                      JStr("text_analysis"), JStr("system"),
                                      JStr("ai")>>)))) @@
                  ("metadata" :>
                      JObj(("type" :> JStr("object")) @@
                           ("additionalProperties" :> JBool(TRUE)))) @@
                  ("entity" :>
                      JObj(("oneOf" :>
                               JArr(<<JObj(("type" :> JStr("string"))),
                                      JObj(("type" :> JStr("object")) @@
                                           ("required" :>
                                               JArr(<<JStr("id"),
                                                      JStr("type")>>)) @@
                                           ("properties" :>
                                               JObj(("id" :>
                                                        JObj(("type" :>
                                                                 JStr("string")))) @@
                                                    ("type" :>
                                                        JObj(("type" :>
                                                                 JStr("string")))) @@
                                                    ("external_id" :>
                                                        JObj(("type" :>
                                                                 JStr("string")))) @@
                                                    ("system" :>
                                                        JObj(("type" :>
                                                                 JStr("string")))) @@
                                                    ("version" :>
                                                        JObj(("type" :>
                                                                 JStr("string")))) @@
                                                    ("schema_url" :>
                                                        JObj(("type" :>
                                                                 JStr("string")) @@
                                                             ("format" :>
                                                                 JStr("uri")))) @@
                                                    ("metadata" :>
                                                        JObj(("type" :>
                                                                 JStr("object")) @@
                                                             ("additionalProperties" :>
                                                                 JBool(TRUE)))))) @@
                                           ("additionalProperties" :>
                                               JBool(FALSE)))>>)))) @@
                  ("action" :>
                      JObj(("type" :> JStr("string")) @@
                           ("enum" :>
                               JArr(<<JStr("create"), JStr("update"),
                                      JStr("delete"), JStr("execute"),
                                      JStr("cancel"), JStr("pause"),
                                      JStr("resume")>>)))) @@
                  ("system" :> JObj(("type" :> JStr("string")))) @@
                  ("transaction_id" :> JObj(("type" :> JStr("string")))) @@
                  ("status" :>
                      JObj(("type" :> JStr("string")) @@
                           ("enum" :>
                               JArr(<<JStr("pending"), JStr("in_progress"),
                                      JStr("success"), JStr("failed"),
                                      JStr("retrying"), JStr("cancelled")>>)) @@
                           ("default" :> JStr("pending")))) @@
                  ("error" :>
                      JObj(("type" :> JStr("object")) @@
                           ("properties" :>
                               JObj(("code" :>
                                        JObj(("type" :> JStr("string")))) @@
                                    ("message" :>
                                        JObj(("type" :> JStr("string")))) @@
                                    ("details" :>
                                        JObj(("type" :> JStr("object")))) @@
                                    ("recoverable" :>
                                        JObj(("type" :> JStr("boolean")))))) @@
                           ("required" :>
                               JArr(<<JStr("code"), JStr("message")>>)))) @@
                  ("retry_count" :>
                      JObj(("type" :> JStr("integer")) @@
                           ("minimum" :> JNum(0)) @@
                           ("default" :> JNum(0)))) @@
                  ("max_retries" :>
                      JObj(("type" :> JStr("integer")) @@
                           ("minimum" :> JNum(0)) @@
                           ("default" :> JNum(3)))) @@
                  ("idempotency_key" :> JObj(("type" :> JStr("string")))) @@
                  ("rollback_info" :> JObj(("type" :> JStr("object")))))) @@
         ("additionalProperties" :> JBool(FALSE)))

\* SCHEMAS["error"]
ErrorSchema ==
    JObj(("$schema" :> JStr("https://json-schema.org/draft/2020-12/schema")) @@
         ("$id" :> JStr("https://schemas.astra.dev/v1/error.json")) @@
         ("title" :> JStr("Error")) @@
         ("type" :> JStr("object")) @@
         ("required" :>
             JArr(<<JStr("id"), JStr("timestamp"), JStr("speaker"),
                    JStr("type"), JStr("code"), JStr("message"),
                    JStr("recoverable")>>)) @@
         ("properties" :>
             JObj(("id" :>
                      JObj(("type" :> JStr("string")) @@
                           ("pattern" :> JStr("^act_[a-zA-Z0-9_-]+$")))) @@
                  ("timestamp" :>
                      JObj(("type" :> JStr("string")) @@
                           ("format" :> JStr("date-time")))) @@
                  ("speaker" :> JObj(("type" :> JStr("string")))) @@
                  ("type" :> JObj(("const" :> JStr("error")))) @@
                  ("confidence" :>
                      JObj(("type" :> JStr("number")) @@
                           ("minimum" :> JNum(0)) @@
                           ("maximum" :> JNum(1)))) @@
                  ("source" :>
                      JObj(("type" :> JStr("string")) @@
                           ("enum" :>
                               JArr(<<JStr("human"),
                                      JStr("speech_recognition"),
                                      JStr("text_analysis"), JStr("system"),
                                      JStr("ai")>>)))) @@
                  ("metadata" :>
                      JObj(("type" :> JStr("object")) @@
                           ("additionalProperties" :> JBool(TRUE)))) @@
                  ("code" :> JObj(("type" :> JStr("string")))) @@
                  ("message" :> JObj(("type" :> JStr("string")))) @@
                  ("recoverable" :> JObj(("type" :> JStr("boolean")))) @@
                  ("severity" :>
                      JObj(("type" :> JStr("string")) @@
                           ("enum" :>
                               JArr(<<JStr("info"), JStr("warning"),
                                      JStr("error"), JStr("critical")>>)) @@
                           ("default" :> JStr("error")))) @@
                  ("category" :>
                      JObj(("type" :> JStr("string")) @@
                           ("enum" :>
                               JArr(<<JStr("validation"), JStr("processing"),
                                      JStr("integration"), JStr("timeout"),
                                      JStr("permission"), JStr("system"),
                                      JStr("user_input"),
                                      JStr("business_rule")>>)))) @@
                  ("details" :> JObj(("type" :> JStr("object")))) @@
                  ("related_act_id" :>
                      JObj(("type" :> JStr("string")) @@
                           ("pattern" :> JStr("^act_[a-zA-Z0-9_-]+$")))) @@
                  ("suggested_action" :>
                      JObj(("type" :> JStr("string")) @@
                           ("enum" :>
                               JArr(<<JStr("retry"), JStr("escalate"),
                                      JStr("ignore"), JStr("clarify"),
                                      JStr("fallback"), JStr("terminate")>>)))) @@
                  ("user_message" :> JObj(("type" :> JStr("string")))) @@
                  ("stack_trace" :> JObj(("type" :> JStr("string")))))) @@
         ("additionalProperties" :> JBool(FALSE)))

\* SCHEMAS["entity"]
EntitySchema ==
    JObj(("$schema" :> JStr("https://json-schema.org/draft/2020-12/schema")) @@
         ("$id" :> JStr("https://schemas.astra.dev/v1/entity.json")) @@
         ("title" :> JStr("Entity")) @@
         ("type" :> JStr("object")) @@
         ("required" :> JArr(<<JStr("id"), JStr("type")>>)) @@
         ("properties" :>
             JObj(("id" :> JObj(("type" :> JStr("string")))) @@
                  ("type" :> JObj(("type" :> JStr("string")))) @@
                  ("external_id" :> JObj(("type" :> JStr("string")))) @@
                  ("system" :> JObj(("type" :> JStr("string")))) @@
                  ("version" :> JObj(("type" :> JStr("string")))) @@
                  ("schema_url" :>
                      JObj(("type" :> JStr("string")) @@
                           ("format" :> JStr("uri")))) @@
                  ("metadata" :>
                      JObj(("type" :> JStr("object")) @@
                           ("additionalProperties" :> JBool(TRUE)))))) @@
         ("additionalProperties" :> JBool(FALSE)))

\* SCHEMAS["participant"]
ParticipantSchema ==
    JObj(("$schema" :> JStr("https://json-schema.org/draft/2020-12/schema")) @@
         ("$id" :> JStr("https://schemas.astra.dev/v1/participant.json")) @@
         ("title" :> JStr("Participant")) @@
         ("type" :> JStr("object")) @@
         ("required" :> JArr(<<JStr("id"), JStr("type")>>)) @@
         ("properties" :>
             JObj(("id" :> JObj(("type" :> JStr("string")))) @@
                  ("type" :>
                      JObj(("type" :> JStr("string")) @@
                           ("enum" :>
                               JArr(<<JStr("human"), JStr("ai"),
                                      JStr("system"), JStr("bot")>>)))) @@
                  ("role" :> JObj(("type" :> JStr("string")))) @@
                  ("name" :> JObj(("type" :> JStr("string")))) @@
                  ("email" :>
                      JObj(("type" :> JStr("string")) @@
                           ("format" :> JStr("email")))) @@
                  ("phone" :> JObj(("type" :> JStr("string")))) @@
                  ("external_id" :> JObj(("type" :> JStr("string")))) @@
                  ("system" :> JObj(("type" :> JStr("string")))) @@
                  ("capabilities" :>
                      JObj(("type" :> JStr("array")) @@
                           ("items" :> JObj(("type" :> JStr("string")))))) @@
                  ("permissions" :>
                      JObj(("type" :> JStr("array")) @@
                           ("items" :> JObj(("type" :> JStr("string")))))) @@
                  ("preferences" :>
                      JObj(("type" :> JStr("object")) @@
                           ("properties" :>
                               JObj(("language" :>
                                        JObj(("type" :> JStr("string")) @@
                                             ("pattern" :>
                                                 JStr("^[a-z]{2}(-[A-Z]{2})?$")))) @@
                                    ("timezone" :>
                                        JObj(("type" :> JStr("string")))) @@
                                    ("communication_channels" :>
                                        JObj(("type" :> JStr("array")) @@
                                             ("items" :>
                                                 JObj(("type" :>
                                                          JStr("string")))))))) @@
                           ("additionalProperties" :> JBool(TRUE)))) @@
                  ("metadata" :>
                      JObj(("type" :> JStr("object")) @@
                           ("additionalProperties" :> JBool(TRUE)))))) @@
         ("additionalProperties" :> JBool(FALSE)))

\* SCHEMAS["constraint"]
ConstraintSchema ==
    JObj(("$schema" :> JStr("https://json-schema.org/draft/2020-12/schema")) @@
         ("$id" :> JStr("https://schemas.astra.dev/v1/constraint.json")) @@
         ("title" :> JStr("Constraint")) @@
         ("type" :> JStr("object")) @@
         ("required" :> JArr(<<JStr("type")>>)) @@
         ("properties" :>
             JObj(("type" :>
                      JObj(("type" :> JStr("string")) @@
                           ("enum" :>
                               JArr(<<JStr("required"), JStr("optional"),
                                      JStr("min_length"), JStr("max_length"),
                                      JStr("pattern"), JStr("format"),
                                      JStr("range"), JStr("enum"),
                                      JStr("custom")>>)))) @@
                  ("value" :> JObj(EmptyObj)) @@
                  ("message" :> JObj(("type" :> JStr("string")))) @@
                  ("code" :> JObj(("type" :> JStr("string")))))) @@
         ("additionalProperties" :> JBool(FALSE)))

\* SCHEMAS["conversation"]
ConversationSchema ==
    JObj(("$schema" :> JStr("https://json-schema.org/draft/2020-12/schema")) @@
         ("$id" :> JStr("https://schemas.astra.dev/v1/conversation.json")) @@
         ("title" :> JStr("Conversation")) @@
         ("type" :> JStr("object")) @@
         ("required" :>
             JArr(<<JStr("id"), JStr("participants"), JStr("acts")>>)) @@
         ("properties" :>
             JObj(("id" :>
                      JObj(("type" :> JStr("string")) @@
                           ("pattern" :> JStr("^conv_[a-zA-Z0-9_-]+$")))) @@
                  ("participants" :>
                      JObj(("type" :> JStr("array")) @@
                           ("minItems" :> JNum(1)) @@
                           ("items" :>
                               JObj(("type" :> JStr("object")) @@
                                    ("required" :>
                                        JArr(<<JStr("id"), JStr("type")>>)) @@
                                    ("properties" :>
                                        JObj(("id" :>
                                                 JObj(("type" :>
                                                          JStr("string")))) @@
                                             ("type" :>
                                                 JObj(("type" :>
                                                          JStr("string")) @@
                                                      ("enum" :>
                                                          JArr(<<JStr("human"),
                                                                 JStr("ai"),
                                                                 JStr("system"),
                                                                 JStr("bot")>>)))) @@
                                             ("role" :>
                                                 JObj(("type" :>
                                                          JStr("string")))) @@
                                             ("name" :>
                                                 JObj(("type" :>
                                                          JStr("string")))) @@
                                             ("email" :>
                                                 JObj(("type" :>
                                                          JStr("string")) @@
                                                      ("format" :>
                                                          JStr("email")))) @@
                                             ("phone" :>
                                                 JObj(("type" :>
                                                          JStr("string")))) @@
                                             ("external_id" :>
                                                 JObj(("type" :>
                                                          JStr("string")))) @@
                                             ("system" :>
                                                 JObj(("type" :>
                                                          JStr("string")))) @@
                                             ("capabilities" :>
                                                 JObj(("type" :>
                                                          JStr("array")) @@
                                                      ("items" :>
                                                          JObj(("type" :>
                                                                   JStr("string")))))) @@
                                             ("permissions" :>
                                                 JObj(("type" :>
                                                          JStr("array")) @@
                                                      ("items" :>
                                                          JObj(("type" :>
                                                                   JStr("string")))))) @@
                                             ("preferences" :>
                                                 JObj(("type" :>
                                                          JStr("object")) @@
                                                      ("additionalProperties" :>
                                                          JBool(TRUE)))) @@
                                             ("metadata" :>
                                                 JObj(("type" :>
                                                          JStr("object")) @@
                                                      ("additionalProperties" :>
                                                          JBool(TRUE)))))))))) @@
                  ("acts" :>
                      JObj(("type" :> JStr("array")) @@
                           ("items" :>
                               JObj(("oneOf" :>
                                        JArr(<<JObj(("$ref" :> JStr("#/ask"))),
                                               JObj(("$ref" :> JStr("#/fact"))),
                                               JObj(("$ref" :>
                                                        JStr("#/confirm"))),
                                               JObj(("$ref" :>
                                                        JStr("#/commit"))),
                                               JObj(("$ref" :>
                                                        JStr("#/error")))>>)))))) @@
                  ("started_at" :>
                      JObj(("type" :> JStr("string")) @@
                           ("format" :> JStr("date-time")))) @@
                  ("ended_at" :>
                      JObj(("type" :> JStr("string")) @@
                           ("format" :> JStr("date-time")))) @@
                  ("status" :>
                      JObj(("type" :> JStr("string")) @@
                           ("enum" :>
                               JArr(<<JStr("active"), JStr("paused"),
                                      JStr("completed"), JStr("failed"),
                                      JStr("cancelled")>>)) @@
                           ("default" :> JStr("active")))) @@
                  ("channel" :> JObj(("type" :> JStr("string")))) @@
                  ("schema" :> JObj(("type" :> JStr("string")))) @@
                  ("context" :>
                      JObj(("type" :> JStr("object")) @@
                           ("properties" :>
                               JObj(("session_id" :>
                                        JObj(("type" :> JStr("string")))) @@
                                    ("user_agent" :>
                                        JObj(("type" :> JStr("string")))) @@
                                    ("ip_address" :>
                                        JObj(("type" :> JStr("string")))) @@
                                    ("referrer" :>
                                        JObj(("type" :> JStr("string")))))) @@
                           ("additionalProperties" :> JBool(TRUE)))) @@
                  ("final_state" :>
                      JObj(("type" :> JStr("object")) @@
                           ("additionalProperties" :> JBool(TRUE)))) @@
                  ("metadata" :>
                      JObj(("type" :> JStr("object")) @@
                           ("properties" :>
                               JObj(("total_duration_ms" :>
                                        JObj(("type" :> JStr("integer")) @@
                                             ("minimum" :> JNum(0)))) @@
                                    ("act_count" :>
                                        JObj(("type" :> JStr("integer")) @@
                                             ("minimum" :> JNum(0)))) @@
                                    ("error_count" :>
                                        JObj(("type" :> JStr("integer")) @@
                                             ("minimum" :> JNum(0)))) @@
                                    ("commit_count" :>
                                        JObj(("type" :> JStr("integer")) @@
                                             ("minimum" :> JNum(0)))) @@
                                    ("avg_confidence" :>
                                        JObj(("type" :> JStr("number")) @@
                                             ("minimum" :> JNum(0)) @@
                                             ("maximum" :> JNum(1)))))) @@
                           ("additionalProperties" :> JBool(TRUE)))))) @@
         ("additionalProperties" :> JBool(FALSE)))

\* a registry keyed by the titles of its documents
SchemasByTitle ==
    ("Act" :> ActSchema) @@ ("Ask" :> AskSchema) @@ ("Fact" :> FactSchema) @@
    ("Confirm" :> ConfirmSchema) @@ ("Commit" :> CommitSchema) @@
    ("Error" :> ErrorSchema) @@ ("Entity" :> EntitySchema) @@
    ("Participant" :> ParticipantSchema) @@
    ("Constraint" :> ConstraintSchema) @@
    ("Conversation" :> ConversationSchema)

SCHEMAS ==
    ("act" :> ActSchema) @@ ("ask" :> AskSchema) @@ ("fact" :> FactSchema) @@
    ("confirm" :> ConfirmSchema) @@ ("commit" :> CommitSchema) @@
    ("error" :> ErrorSchema) @@ ("entity" :> EntitySchema) @@
    ("participant" :> ParticipantSchema) @@
    ("constraint" :> ConstraintSchema) @@
    ("conversation" :> ConversationSchema)

(***************************************************************************)
(* JSON Schema validation of a document against a registry entry, for the  *)
(* keywords the registry uses.  "format" is an annotation (draft 2020-12   *)
(* does not assert it) and so are "title" and "default".  A "$ref" of the  *)
(* form "#/<key>" points at member <key> of the document it occurs in; a   *)
(* reference that resolves to nothing accepts no value.                    *)
(***************************************************************************)
\* the JSON Schema type names of a value (numbers here are integers)
JsonTypes(j) ==
    CASE j.k = "null" -> {"null"}
      [] j.k = "str" -> {"string"}
      [] j.k = "num" -> {"number", "integer"}
      [] j.k = "bool" -> {"boolean"}
      [] j.k = "obj" -> {"object"}
      [] j.k = "arr" -> {"array"}

\* the member a reference "#/<key>" names
RefKey(ref) == SubSeq(ref, 3, Len(ref))

RECURSIVE SchemaAcceptsIn(_, _, _)
SchemaAcceptsIn(root, schema, j) ==
    LET s == schema.o
        kw == DOMAIN schema.o
        declared == IF "properties" \in kw THEN DOMAIN s.properties.o ELSE {}
    IN  /\ "$ref" \in kw =>
              /\ RefKey(s["$ref"].s) \in DOMAIN root.o
              /\ SchemaAcceptsIn(root, root.o[RefKey(s["$ref"].s)], j)
        /\ "type" \in kw => s.type.s \in JsonTypes(j)
        /\ "const" \in kw => j = s.const
        /\ "enum" \in kw => \E i \in DOMAIN s.enum.a : s.enum.a[i] = j
        /\ ("pattern" \in kw /\ j.k = "str") => Matches(s.pattern.s, j.s)
        /\ ("minimum" \in kw /\ j.k = "num") => j.n >= s.minimum.n
        /\ ("maximum" \in kw /\ j.k = "num") => j.n <= s.maximum.n
        /\ ("minItems" \in kw /\ j.k = "arr") => Len(j.a) >= s.minItems.n
        /\ ("items" \in kw /\ j.k = "arr") =>
              \A i \in DOMAIN j.a : SchemaAcceptsIn(root, s.items, j.a[i])
        /\ ("required" \in kw /\ j.k = "obj") =>
              \A i \in DOMAIN s.required.a : s.required.a[i].s \in DOMAIN j.o
        /\ ("properties" \in kw /\ j.k = "obj") =>
              \A n \in DOMAIN j.o \cap declared :
                 SchemaAcceptsIn(root, s.properties.o[n], j.o[n])
        /\ ("additionalProperties" \in kw /\ j.k = "obj"
               /\ s.additionalProperties = JBool(FALSE)) =>
              DOMAIN j.o \subseteq declared
        /\ "oneOf" \in kw =>
              Cardinality({i \in DOMAIN s.oneOf.a :
                             SchemaAcceptsIn(root, s.oneOf.a[i], j)}) = 1

SchemaAccepts(schema, j) == SchemaAcceptsIn(schema, schema, j)

(***************************************************************************)
(* The documents the decoder is given: a well-formed payload of each       *)
(* class, changed in at most MaxEdits keys.                                *)
(***************************************************************************)
MaxEdits == 2
MaxActs == 2

Obj2(k1, v1, k2, v2) == JObj((k1 :> v1) @@ (k2 :> v2))

BaseKeys ==
    [id |-> JStr("act_1"), timestamp |-> JStr("2025-01-15T14:30:00Z"),
     speaker |-> JStr("agent")]

AskBase ==
    JObj(Put(BaseKeys, "type", JStr("ask"))
         @@ [field |-> JStr("name"), prompt |-> JStr("What is your name?")])
FactBase ==
    JObj(Put(BaseKeys, "type", JStr("fact"))
         @@ [entity |-> JStr("customer_789"), field |-> JStr("email"),
             value |-> JStr("user@example.com")])
ConfirmBase ==
    JObj(Put(BaseKeys, "type", JStr("confirm"))
         @@ [entity |-> JStr("order_1"), summary |-> JStr("Place the order?")])
CommitBase ==
    JObj(Put(BaseKeys, "type", JStr("commit"))
         @@ [entity |-> JStr("order_1"), action |-> JStr("create")])
ErrorBase ==
    JObj(Put(BaseKeys, "type", JStr("error"))
         @@ [code |-> JStr("E42"), message |-> JStr("failed"),
             recoverable |-> JBool(TRUE)])

ActBases == {AskBase, FactBase, ConfirmBase, CommitBase, ErrorBase}

Set(key, val) == [key |-> key, del |-> FALSE, val |-> val]
Remove(key) == [key |-> key, del |-> TRUE, val |-> JNull]
ApplyEdit(j, e) ==
    JObj(IF e.del THEN Del(j.o, e.key) ELSE Put(j.o, e.key, e.val))

EntityValues ==
    {JStr("customer_123"),
     Obj2("id", JStr("customer_123"), "type", JStr("customer")),
     JObj([id |-> JStr("customer_123"), type |-> JStr("customer"),
           x_tier |-> JStr("gold"),
           metadata |-> Obj2("region", JStr("eu"), "score", JNum(7))]),
     JObj([id |-> JStr("customer_123"), type |-> JStr("customer"),
           version |-> JNum(3)]),
     JObj("id" :> JStr("x")),
     JObj("type" :> JStr("customer")),
     Obj2("id", JNum(5), "type", JStr("customer")),
     JNum(123),
     JArr(<<JStr("customer_123")>>)}

ActEdits ==
    {Set("type", JStr(t)) : t \in ActType \cup {"bogus"}}
    \cup {Set("entity", e) : e \in EntityValues}
    \cup {Set("type", JNull), Remove("type"), Remove("id"), Remove("prompt"),
          Set("confidence", JNum(1)), Set("confidence", JNull),
          Set("confidence", JNum(0)), Set("confidence", JNum(2)),
          Set("confidence", JNum(0 - 1)),
          Set("metadata", JObj("channel" :> JStr("web"))),
          Set("metadata", Obj2("channel", JStr("web"), "x_trace", JStr("t1"))),
          Set("x_extra", JStr("v")),
          Set("constraints", JArr(<<JObj("type" :> JStr("required"))>>)),
          Set("constraints", JNull),
          Set("value", JNull), Set("value", JNum(0)), Remove("value"),
          Set("confirmed", JBool(FALSE)), Set("confirmed", JNull),
          Set("id", JStr("ask_123")), Set("id", JStr("act_"))}

\* the edits of the keys only class c declares
VariantEdits(c) ==
    (CASE c = "Error" ->
            {Set("related_act_id", JStr("act_0")),
             Set("related_act_id", JStr("missing"))}
      [] c = "Commit" ->
            {Set("error", Obj2("code", JStr("E1"), "message", JStr("failed"))),
             Set("error", JObj([code |-> JStr("E1"), message |-> JStr("failed"),
                                recoverable |-> JBool(FALSE)])),
             Set("error", JObj([code |-> JStr("E1"), message |-> JStr("failed"),
                                recoverable |-> JBool(FALSE),
                                x_extra |-> JStr("v")]))}
      [] c = "Ask" ->
            {Set("constraints",
                 JArr(<<Obj2("type", JStr("required"), "x_note", JStr("n"))>>)),
             Set("constraints",
                 JArr(<<Obj2("type", JStr("range"),
                             "value", Obj2("min", JNum(0), "x_unit", JStr("cm")))>>))}
      [] OTHER -> {})
    \cup (IF c \in {"Ask", "Commit"}
          THEN {Set(key, JNum(n)) : key \in {"retry_count", "max_retries"},
                                    n \in {0 - 1, 0}}
          ELSE IF c = "Confirm"
          THEN {Set("timeout_ms", JNum(n)) : n \in {0 - 1, 0}}
          ELSE {})

RECURSIVE Edited(_, _, _)
\* the documents of S with at most n more edits of E applied
Edited(S, E, n) ==
    IF n = 0 THEN S
    ELSE Edited(S \cup {ApplyEdit(j, e) : j \in S, e \in E}, E, n - 1)

BaseOf(c) ==
    CASE c = "Ask" -> AskBase [] c = "Fact" -> FactBase
      [] c = "Confirm" -> ConfirmBase [] c = "Commit" -> CommitBase
      [] c = "Error" -> ErrorBase

\* the documents handed to class c: its own payload, edited
ActDocs(c) == Edited({BaseOf(c)}, ActEdits \cup VariantEdits(c), MaxEdits)

P1 == Obj2("id", JStr("p1"), "type", JStr("human"))
P2 == JObj([id |-> JStr("p2"), type |-> JStr("ai"), x_team |-> JStr("support")])

\* an Ask of participant p1 with an id of its own
AskOfP1 ==
    ApplyEdit(ApplyEdit(AskBase, Set("id", JStr("act_2"))),
              Set("speaker", JStr("p1")))

\* the act documents a conversation document embeds
ConvActDocs ==
    ActBases \cup {ApplyEdit(AskBase, Set("type", JStr("fact"))),
                   ApplyEdit(AskBase, Remove("type")),
                   ApplyEdit(ErrorBase, Set("related_act_id", JStr("act_2"))),
                   AskOfP1}

RECURSIVE SeqsUpTo(_, _)
SeqsUpTo(S, n) ==
    IF n = 0 THEN {<<>>}
    ELSE SeqsUpTo(S, n - 1)
         \cup {Append(q, x) : q \in {r \in SeqsUpTo(S, n - 1) : Len(r) = n - 1},
                              x \in S}

\* one participant and at most MaxActs acts
ConversationBases ==
    {JObj([id |-> JStr("conv_1"), participants |-> JArr(<<P1>>),
           acts |-> JArr(q)]) : q \in SeqsUpTo(ConvActDocs, MaxActs)}

ConversationEdits ==
         {Set("participants", JArr(<<>>)), Set("participants", JArr(<<P1, P2>>)),
          Set("participants", JArr(<<P2, P1>>)),
          Set("id", JStr("conv_")), Set("id", JStr("c1")),
          Set("id", JStr("act_1")),
          Set("context", Obj2("session_id", JStr("s1"), "x_tenant", JStr("t1"))),
          Set("metadata", Obj2("act_count", JNum(0), "x_tag", JStr("t1"))),
          Set("metadata", JObj("act_count" :> JNum(0 - 1))),
          Set("metadata", Obj2("error_count", JNum(0), "commit_count", JNum(0 - 1))),
          Set("final_state", JObj("order" :> JObj("total" :> JNum(3)))),
          Set("status", JStr("active")),
          Set("x_extra", JStr("v"))}

\* the conversations of at most one act, edited, and every other one as it is
ConversationDocs ==
    Edited({j \in ConversationBases : Len(j.o.acts.a) <= 1},
           ConversationEdits, MaxEdits)
    \cup ConversationBases

Inputs ==
    UNION {{<<c, j>> : j \in ActDocs(c)} : c \in ActClasses}
    \cup {<<"Conversation", j>> : j \in ConversationDocs}

(***************************************************************************)
(* The state machine: a document is decoded, the value is encoded, and     *)
(* the encoding is decoded again.                                          *)
(***************************************************************************)
NoResult == Fail

\* nothing has been decoded, read from the registry, or called
DecodeIdle ==
    /\ cls = "" /\ doc = JNull /\ pc = "idle"
    /\ decoded = NoResult /\ held = JNull
    /\ encoded = JNull /\ restored = NoResult
RegistryIdle == regName = "" /\ regPath = <<>> /\ regNode = JNull
UtilIdle == fn = "" /\ args = JNull /\ env = JNull /\ ret = JNull

Init ==
    /\ \E in \in Inputs : cls = in[1] /\ doc = in[2]
    /\ pc = "input"
    /\ decoded = NoResult
    /\ held = JNull
    /\ encoded = JNull
    /\ restored = NoResult
    /\ RegistryIdle
    /\ UtilIdle

\* cls.model_validate_json(doc)
ModelValidateJson ==
    /\ pc = "input"
    /\ decoded' = Validate(TModel(cls), doc)
    /\ held' = decoded'.v
    /\ pc' = "decoded"
    /\ UNCHANGED <<cls, doc, encoded, restored, registryVars, utilVars>>

\* decoded.model_dump_json()
ModelDumpJson ==
    /\ pc = "decoded"
    /\ decoded.ok
    /\ encoded' = Dump(decoded.v)
    /\ pc' = "encoded"
    /\ UNCHANGED <<cls, doc, decoded, held, restored, registryVars, utilVars>>

\* cls.model_validate_json(json_str)
Restore ==
    /\ pc = "encoded"
    /\ restored' = Validate(TModel(cls), encoded)
    /\ pc' = "restored"
    /\ UNCHANGED <<cls, doc, decoded, held, encoded, registryVars, utilVars>>

\* BaseModel.__setattr__ of a class without frozen and without
\* validate_assignment: the name of a field is bound to the value as given
\* and joins __pydantic_fields_set__; another name is stored among the
\* extras where extra is "allow" and raises ValueError elsewhere
SetAttribute(v, n, x) ==
    IF n \in DOMAIN v.f
    THEN [v EXCEPT !.f = Put(v.f, n, x), !.set = v.set \cup {n}]
    ELSE IF ModelExtra(v.cls) = "allow"
    THEN [v EXCEPT !.extra = Put(v.extra, n, x)]
    ELSE v

\* the assignments a caller makes to an instance
Assignments ==
    {<<"status", PyEnum("completed")>>, <<"speaker", JStr("someone_else")>>,
     <<"confidence", JNum(5)>>, <<"x_note", JStr("n")>>}

\* held.n = x
SetAttr ==
    /\ pc = "decoded"
    /\ decoded.ok
    /\ \E as \in Assignments : held' = SetAttribute(held, as[1], as[2])
    /\ pc' = "assigned"
    /\ UNCHANGED <<cls, doc, decoded, encoded, restored, registryVars, utilVars>>

\* held.acts.append(act), act an Ask built by the caller: list.append on
\* the list the field holds
AppendAct ==
    /\ pc = "decoded"
    /\ decoded.ok
    /\ cls = "Conversation"
    /\ held' = [held EXCEPT !.f.acts.a =
                   Append(@, Validate(TModel("Ask"), AskOfP1).v)]
    /\ pc' = "assigned"
    /\ UNCHANGED <<cls, doc, decoded, encoded, restored, registryVars, utilVars>>

Next ==
    \/ ModelValidateJson
    \/ ModelDumpJson
    \/ Restore
    \/ SetAttr
    \/ AppendAct

Spec == Init /\ [][Next]_vars

(***************************************************************************)
(* Reading the registry: SCHEMAS[name], then from a schema down to one of  *)
(* its sub-schemas (a property, the items, an alternative of oneOf).       *)
(***************************************************************************)
\* the names the registry is asked for
RegistryNames ==
    {"act", "ask", "fact", "confirm", "commit", "error", "entity",
     "participant", "constraint", "conversation"}

KeyError == [k |-> "KeyError"]

\* the sub-schemas directly under a schema, each with the keys leading to it
SubSchemas(schema) ==
    LET s == schema.o
        kw == DOMAIN schema.o
    IN  (IF "properties" \in kw
         THEN {[step |-> <<"properties", n>>, schema |-> s.properties.o[n]] :
                 n \in DOMAIN s.properties.o}
         ELSE {})
        \cup (IF "items" \in kw
              THEN {[step |-> <<"items">>, schema |-> s.items]} ELSE {})
        \cup (IF "oneOf" \in kw
              THEN {[step |-> <<"oneOf", ToString(i - 1)>>, schema |-> s.oneOf.a[i]] :
                      i \in DOMAIN s.oneOf.a}
              ELSE {})

RegistryInit == DecodeIdle /\ RegistryIdle /\ UtilIdle

\* SCHEMAS[n]
SchemasGet ==
    /\ regName = ""
    /\ \E n \in RegistryNames \cup DOMAIN SCHEMAS :
          /\ regName' = n
          /\ regNode' = IF n \in DOMAIN SCHEMAS THEN SCHEMAS[n] ELSE KeyError
    /\ regPath' = <<>>
    /\ UNCHANGED <<decodeVars, utilVars>>

\* regNode["properties"][n], regNode["items"], regNode["oneOf"][i]
Descend ==
    /\ regName # ""
    /\ regNode.k = "obj"
    /\ \E c \in SubSchemas(regNode) :
          /\ regPath' = regPath \o c.step
          /\ regNode' = c.schema
    /\ UNCHANGED <<regName, decodeVars, utilVars>>

RegistryNext == SchemasGet \/ Descend

RegistrySpec == RegistryInit /\ [][RegistryNext]_vars

(***************************************************************************)
(* The package namespace (__init__.py) and the utility functions of        *)
(* types.py.  A call draws a random UUID (uuid.uuid4()) and, for           *)
(* create_base_act, the host's clock (datetime.now(): the local wall-clock *)
(* time, without a zone).                                                  *)
(***************************************************************************)
__all__ ==
    {"Act", "ActType", "Source", "ActMetadata", "Entity", "EntityRef",
     "Constraint", "ConstraintType", "FormatType", "RangeConstraint",
     "Participant", "ParticipantType", "ParticipantPreferences", "Ask",
     "ExpectedType", "Fact", "FieldOperation", "ValidationStatus", "Confirm",
     "ConfirmationMethod", "Commit", "CommitAction", "CommitStatus",
     "CommitError", "Error", "ErrorSeverity", "ErrorCategory",
     "SuggestedAction", "ConversationAct", "ConversationStatus",
     "ConversationContext", "ConversationMetadata", "Conversation",
     "generate_act_id", "generate_conversation_id", "create_base_act",
     "SCHEMAS", "__version__", "__schema_version__", "__author__",
     "__license__", "__description__"}

\* every name bound in the package: what __init__.py imports and assigns
\* (the names __all__ lists), __all__ itself and the two submodules
PackageNames == __all__ \cup {"__all__", "types", "schemas"}

ImportError == [k |-> "ImportError"]
Imported(n) == [k |-> "imported", s |-> n]

HexChars == DigitChars \cup {"a", "b", "c", "d", "e", "f"}

\* str(uuid.uuid4()): 8-4-4-4-12 hexadecimal digits, the version digit 4
\* and a variant digit; drawn here with the first and the twelfth digit free
UUIDs ==
    {a \o "1b9d6bc-bbd" \o b \o "-4b2d-" \o v \o "b5d-ab8dfbbd4bed" :
       a \in HexChars, b \in {"0", "f"}, v \in {"8", "b"}}

\* a replace that leaves the string as it is
ReplaceKeeping(s, old, new) == s

RECURSIVE ReplaceFrom(_, _, _, _)
\* the characters of s from the i-th on, each old replaced by new
ReplaceFrom(s, i, old, new) ==
    IF i > Len(s) THEN ""
    ELSE (IF Char(s, i) = old THEN new ELSE Char(s, i))
         \o ReplaceFrom(s, i + 1, old, new)

\* s.replace(old, new) for a one-character old
Replace(s, old, new) == ReplaceFrom(s, 1, old, new)

\* str(u).replace('-', '')[:12]
Uid(u) == SubSeq(Replace(u, "-", ""), 1, 12)

generate_act_id(u) == "act_" \o Uid(u)
generate_conversation_id(u) == "conv_" \o Uid(u)

\* the instants of 2025-01-15 the clock is read at, and the host's offsets
\* from UTC in hours
Clocks ==
    [hour : {0, 14, 23}, offset : {0 - 5, 0, 2}, microsecond : {0, 250000}]

\* datetime.now(): the local naive time at instant t
Now(t) ==
    [day |-> 15 + ((t.hour + t.offset) \div 24),
     hour |-> (t.hour + t.offset) % 24,
     microsecond |-> t.microsecond]

\* n in at least w digits
Pad(n, w) ==
    LET d == ToString(n)
    IN  SubSeq("000000", 1, w - Len(d)) \o d

\* datetime.isoformat(): the fraction is written only when it is not zero
Isoformat(d) ==
    "2025-01-" \o Pad(d.day, 2) \o "T" \o Pad(d.hour, 2) \o ":30:00"
    \o (IF d.microsecond = 0 THEN "" ELSE "." \o Pad(d.microsecond, 6))

\* bool(additional_fields): None and the empty dict are false
Truthy(v) == v.k = "obj" /\ DOMAIN v.o # {}

\* an update in which the keys already present keep their value
UpdateKeeping(d, other) == d @@ other

\* d.update(other)
Update(d, other) == other @@ d

create_base_act(speaker, act_type, additional_fields, u, t) ==
    LET base_act ==
          [id |-> JStr(generate_act_id(u)),
           timestamp |-> JStr(Isoformat(Now(t)) \o "Z"),
           speaker |-> speaker,
           type |-> act_type]
    IN  JObj(IF Truthy(additional_fields)
             THEN Update(base_act, additional_fields.o)
             ELSE base_act)

\* the arguments create_base_act is called with; nothing checks them
Speakers == {JStr("speaker_123"), JStr("")}
ActTypeArgs == {PyEnum("ask"), PyEnum("error"), JStr("bogus")}
AdditionalFields ==
    {JNull, JObj(EmptyObj),
     JObj("confidence" :> JNum(1)),
     Obj2("confidence", JNum(1), "field", JStr("email")),
     JObj("speaker" :> JStr("other")),
     JObj("type" :> PyEnum("fact")),
     JObj("id" :> JStr("custom")),
     Obj2("timestamp", JStr("yesterday"), "x_note", JNull)}

\* the names a caller imports from the package
ImportNames ==
    {"validate", "evaluate_constraints", "Conversation", "Constraint",
     "SCHEMAS", "create_base_act", "generate_act_id",
     "generate_conversation_id"}

UtilInit == DecodeIdle /\ RegistryIdle /\ UtilIdle

\* from astra_model import n
ImportFrom ==
    /\ fn = ""
    /\ \E n \in ImportNames :
          /\ args' = JStr(n)
          /\ ret' = IF n \in PackageNames THEN Imported(n) ELSE ImportError
    /\ fn' = "import"
    /\ UNCHANGED <<env, decodeVars, registryVars>>

GenerateActId ==
    /\ fn = ""
    /\ \E u \in UUIDs :
          /\ env' = [uuid4 |-> u, now |-> JNull]
          /\ ret' = JStr(generate_act_id(u))
    /\ fn' = "generate_act_id"
    /\ UNCHANGED <<args, decodeVars, registryVars>>

GenerateConversationId ==
    /\ fn = ""
    /\ \E u \in UUIDs :
          /\ env' = [uuid4 |-> u, now |-> JNull]
          /\ ret' = JStr(generate_conversation_id(u))
    /\ fn' = "generate_conversation_id"
    /\ UNCHANGED <<args, decodeVars, registryVars>>

CreateBaseAct ==
    /\ fn = ""
    /\ \E speaker \in Speakers, act_type \in ActTypeArgs,
          additional_fields \in AdditionalFields, u \in UUIDs, t \in Clocks :
          /\ args' = [speaker |-> speaker, act_type |-> act_type,
                      additional_fields |-> additional_fields]
          /\ env' = [uuid4 |-> u, now |-> t]
          /\ ret' = create_base_act(speaker, act_type, additional_fields, u, t)
    /\ fn' = "create_base_act"
    /\ UNCHANGED <<decodeVars, registryVars>>

UtilNext ==
    ImportFrom \/ GenerateActId \/ GenerateConversationId \/ CreateBaseAct

UtilSpec == UtilInit /\ [][UtilNext]_vars

(***************************************************************************)
(* Properties.                                                             *)
(***************************************************************************)
Has(j, key) == j.k = "obj" /\ key \in DOMAIN j.o
Ran == pc # "input"
Dumped == pc \in {"encoded", "restored"}
Redecode(c, j) == Validate(TModel(c), j)

ClassOfTag(t) == CHOOSE c \in ActClasses : TagOf(c) = t

\* the fields annotated Optional[...]
OptionalFields(c) == {n \in FieldNames(c) : FieldOf(c, n).ty.t = "opt"}

Missing == [k |-> "missing"]
RECURSIVE At(_, _)
\* the value under a path of keys, or Missing
At(j, path) ==
    IF path = <<>> THEN j
    ELSE IF Has(j, Head(path)) THEN At(j.o[Head(path)], Tail(path))
    ELSE Missing

RECURSIVE PutAt(_, _, _)
\* j with the value under an existing path replaced by v
PutAt(j, path, v) ==
    IF path = <<>> THEN v
    ELSE JObj(Put(j.o, Head(path), PutAt(j.o[Head(path)], Tail(path), v)))

\* C1: decoding a payload as a variant is rejected whenever its type is a
\* valid act tag other than the variant's own tag.
C1_TagMismatchRejected ==
    (Ran /\ cls \in ActClasses /\ Has(doc, "type") /\ doc.o.type.k = "str"
         /\ doc.o.type.s \in ActType \ {TagOf(cls)})
    => ~decoded.ok

\* C2: in every successfully decoded Conversation each element of acts is
\* a value of the variant that the element's own type field names.
C2_ActsAreTheVariantOfTheirTag ==
    (Ran /\ cls = "Conversation" /\ decoded.ok)
    => \A i \in DOMAIN decoded.v.f.acts.a :
          decoded.v.f.acts.a[i].cls = ClassOfTag(decoded.v.f.acts.a[i].f.type.s)

\* C3: decoding an act payload without a type key fails, for each variant
\* and for an element of Conversation.acts.
C3_MissingTypeRejected ==
    Ran =>
      /\ (cls \in ActClasses /\ ~Has(doc, "type")) => ~decoded.ok
      /\ (cls = "Conversation"
            /\ \E i \in DOMAIN doc.o.acts.a : ~Has(doc.o.acts.a[i], "type"))
         => ~decoded.ok

\* C4: for every valid act a, decode(encode(a)) equals a and agrees with a,
\* for every optional field, on whether the field is unset or set.
C4_RoundTripKeepsUnset ==
    (pc = "restored" /\ cls \in ActClasses)
    => /\ restored.ok
       /\ PyEq(restored.v, decoded.v)
       /\ \A n \in OptionalFields(cls) :
             (n \in restored.v.set) = (n \in decoded.v.set)

\* C5: the keys of an encoded act are exactly the required fields plus the
\* optional fields that were set; an unset optional field does not appear.
C5_EncodeOmitsUnset ==
    (Dumped /\ cls \in ActClasses)
    => DOMAIN encoded.o =
          (FieldNames(cls) \ OptionalFields(cls))
          \cup (decoded.v.set \cap OptionalFields(cls))

\* C6: a Fact payload with value: null decodes to a Fact whose value is
\* null (wherever the same payload with a non-null value decodes), its
\* encoding has the key value with null, and a Fact payload without the
\* key value is rejected.
C6_FactValueNullIsNotAbsent ==
    cls = "Fact" =>
      /\ (Ran /\ ~Has(doc, "value")) => ~decoded.ok
      /\ (Ran /\ Has(doc, "value") /\ doc.o.value = JNull
              /\ Redecode(cls, PutAt(doc, <<"value">>, JNum(0))).ok)
         => /\ decoded.ok
            /\ decoded.v.f.value = JNull
            /\ "value" \in decoded.v.set
      /\ (Dumped /\ doc.o.value = JNull)
         => Has(encoded, "value") /\ encoded.o.value = JNull
      /\ (pc = "restored" /\ doc.o.value = JNull)
         => restored.ok /\ restored.v.f.value = JNull

C6_Witness ==
    /\ cls = "Fact" /\ pc = "restored" /\ doc.o.value = JNull
    /\ restored.ok /\ encoded.o.value = JNull

\* C7: the five variants and Conversation are closed records: a payload
\* with any top-level key the class does not declare is rejected.
C7_ClosedRecords ==
    (Ran /\ cls \in ActClasses \cup {"Conversation"}
         /\ DOMAIN doc.o \ FieldNames(cls) # {})
    => ~decoded.ok

C7_Witness ==
    /\ cls = "Ask" /\ pc = "decoded" /\ Has(doc, "x_extra") /\ ~decoded.ok
    /\ Redecode(cls, JObj(Del(doc.o, "x_extra"))).ok

\* the open sub-records of a class: where they sit and the keys they know
OpenSubRecords(c) ==
    IF c = "Conversation"
    THEN {[path |-> <<"context">>, known |-> FieldNames("ConversationContext")],
          [path |-> <<"metadata">>, known |-> FieldNames("ConversationMetadata")],
          [path |-> <<"final_state">>, known |-> {}]}
    ELSE {[path |-> <<"metadata">>, known |-> FieldNames("ActMetadata")],
          [path |-> <<"entity", "metadata">>, known |-> {}]}

UnknownKeys(r) ==
    IF At(doc, r.path).k = "obj" THEN DOMAIN At(doc, r.path).o \ r.known ELSE {}

\* C8: Act.metadata, Conversation.context, Conversation.metadata,
\* Conversation.final_state and Entity.metadata accept unknown keys (the
\* payload is decoded wherever it is without them), and every unknown key
\* is in the encoding of the decoded value with its value unchanged.
C8_OpenRecordsKeepUnknownKeys ==
    \A r \in OpenSubRecords(cls) :
       UnknownKeys(r) # {} =>
         /\ (Ran /\ Redecode(cls, PutAt(doc, r.path,
                       JObj([n \in DOMAIN At(doc, r.path).o \cap r.known |->
                               At(doc, r.path).o[n]]))).ok)
            => decoded.ok
         /\ (Dumped =>
               /\ At(encoded, r.path).k = "obj"
               /\ \A u \in UnknownKeys(r) :
                     /\ u \in DOMAIN At(encoded, r.path).o
                     /\ At(encoded, r.path).o[u] = At(doc, r.path).o[u])

C8_Witness ==
    /\ cls = "Ask" /\ pc = "encoded" /\ Has(doc, "metadata")
    /\ Has(doc.o.metadata, "x_trace")
    /\ encoded.o.metadata.o["x_trace"] = JStr("t1")

\* the Entity shape: string id and type, the other declared keys, where
\* present, of their declared kind; any further key is allowed
EntityShape(e) ==
    /\ e.k = "obj"
    /\ {"id", "type"} \subseteq DOMAIN e.o
    /\ e.o.id.k = "str" /\ e.o.type.k = "str"
    /\ \A n \in {"external_id", "system", "version", "schema_url"} \cap DOMAIN e.o :
          e.o[n].k \in {"str", "null"}
    /\ "metadata" \in DOMAIN e.o => e.o.metadata.k \in {"obj", "null"}

C10_EmptyParticipantsRejected ==
    (Ran /\ cls = "Conversation" /\ Has(doc, "participants")
         /\ doc.o.participants = JArr(<<>>))
    => ~decoded.ok

\* the elements of a JSON array that class c decodes
AllDecodeAs(c, arr) ==
    arr.k = "arr" /\ \A i \in DOMAIN arr.a : Redecode(c, arr.a[i]).ok

\* C11: a Conversation payload that has an id matching the conversation id
\* pattern, a non-empty list of valid participants and acts: [] (and beside
\* these at most a status) is decoded, and the conversation has zero acts
\* and the given participants in the given order.
C11_EmptyActsConstructs ==
    (Ran /\ cls = "Conversation"
         /\ DOMAIN doc.o \ {"status"} = {"id", "participants", "acts"}
         /\ doc.o.id.k = "str" /\ Matches(ConversationIdPattern, doc.o.id.s)
         /\ AllDecodeAs("Participant", doc.o.participants)
         /\ Len(doc.o.participants.a) >= 1
         /\ doc.o.acts = JArr(<<>>))
    => /\ decoded.ok
       /\ Len(decoded.v.f.acts.a) = 0
       /\ Len(decoded.v.f.participants.a) = Len(doc.o.participants.a)
       /\ \A i \in DOMAIN doc.o.participants.a :
             /\ decoded.v.f.participants.a[i].f.id = doc.o.participants.a[i].o.id
             /\ decoded.v.f.participants.a[i]
                   = Redecode("Participant", doc.o.participants.a[i]).v

C11_Witness ==
    /\ cls = "Conversation" /\ pc = "decoded" /\ decoded.ok
    /\ DOMAIN doc.o = {"id", "participants", "acts", "status"}
    /\ doc.o.participants = JArr(<<P2, P1>>) /\ doc.o.acts = JArr(<<>>)
    /\ decoded.v.f.acts.a = <<>>
    /\ decoded.v.f.participants.a[1].f.id = JStr("p2")
    /\ decoded.v.f.participants.a[2].f.id = JStr("p1")

\* C12: constructing a Conversation whose id does not match
\* ^conv_[A-Za-z0-9_-]+$ fails.
C12_BadConversationIdRejected ==
    (Ran /\ cls = "Conversation" /\ Has(doc, "id") /\ doc.o.id.k = "str"
         /\ ~Matches(ConversationIdPattern, doc.o.id.s))
    => ~decoded.ok

\* C13: constructing an act variant whose id does not match
\* ^act_[A-Za-z0-9_-]+$ fails, and so does constructing an Error whose
\* related_act_id is present and does not match it.
C13_BadActIdRejected ==
    (Ran /\ cls \in ActClasses) =>
      /\ (Has(doc, "id") /\ doc.o.id.k = "str"
             /\ ~Matches(ActIdPattern, doc.o.id.s))
         => ~decoded.ok
      /\ (cls = "Error" /\ Has(doc, "related_act_id")
             /\ doc.o.related_act_id.k = "str"
             /\ ~Matches(ActIdPattern, doc.o.related_act_id.s))
         => ~decoded.ok

\* the cross-act conditions on the acts of a conversation document
SpeakersKnown(j) ==
    \A i \in DOMAIN j.o.acts.a :
       \E p \in DOMAIN j.o.participants.a :
          j.o.participants.a[p].o.id = j.o.acts.a[i].o.speaker
ActIdsDistinct(j) ==
    \A a, b \in DOMAIN j.o.acts.a :
       a # b => j.o.acts.a[a].o.id # j.o.acts.a[b].o.id
RelatedActsEarlier(j) ==
    \A i \in DOMAIN j.o.acts.a :
       Has(j.o.acts.a[i], "related_act_id")
       => \E e \in 1..(i - 1) : j.o.acts.a[e].o.id = j.o.acts.a[i].o.related_act_id

\* C14: a Conversation payload of id, participants and acts is decoded
\* whenever the id matches its pattern, there is a participant, and every
\* participant and every act is decoded on its own, whether or not the
\* speakers are participants, the act ids are distinct and the
\* related_act_id of an Error names an earlier act.
C14_NoCrossActChecks ==
    (Ran /\ cls = "Conversation"
         /\ DOMAIN doc.o = {"id", "participants", "acts"}
         /\ doc.o.id.k = "str" /\ Matches(ConversationIdPattern, doc.o.id.s)
         /\ AllDecodeAs("Participant", doc.o.participants)
         /\ Len(doc.o.participants.a) >= 1
         /\ doc.o.acts.k = "arr"
         /\ \A i \in DOMAIN doc.o.acts.a :
               Validate(ConversationAct, doc.o.acts.a[i]).ok)
    => /\ decoded.ok
       /\ Len(decoded.v.f.acts.a) = Len(doc.o.acts.a)

C14_Witness ==
    /\ cls = "Conversation" /\ pc = "decoded" /\ decoded.ok
    /\ Len(doc.o.acts.a) = MaxActs
    /\ ~SpeakersKnown(doc) /\ ~ActIdsDistinct(doc) /\ ~RelatedActsEarlier(doc)

\* the registry schema of a variant
SchemaOf(c) == SCHEMAS[TagOf(c)]

\* C16: every payload that a variant's registry schema accepts is decoded
\* by the variant's model, and the encoding of the decoded value is
\* accepted by the same schema.
C16_SchemaModelParity ==
    (Ran /\ cls \in ActClasses /\ SchemaAccepts(SchemaOf(cls), doc))
    => /\ decoded.ok
       /\ Dumped => SchemaAccepts(SchemaOf(cls), encoded)

\* the dialect every registry entry names
Draft202012 == "https://json-schema.org/draft/2020-12/schema"

\* C17: the registry has the keys act, ask, fact, confirm, commit, error,
\* entity, participant, constraint and conversation, and the entry read
\* under a key declares $schema (the draft 2020-12 URI), a title, and the
\* $id https://schemas.astra.dev/v1/<key>.json.
C17_RegistryEntriesDeclared ==
    /\ RegistryNames \subseteq DOMAIN SCHEMAS
    /\ (regName # "" /\ regPath = <<>>) =>
          /\ regNode.k = "obj"
          /\ {"$schema", "$id", "title"} \subseteq DOMAIN regNode.o
          /\ regNode.o["$schema"] = JStr(Draft202012)
          /\ regNode.o["$id"]
                = JStr("https://schemas.astra.dev/v1/" \o regName \o ".json")
          /\ regNode.o.title.k = "str" /\ Len(regNode.o.title.s) > 0

C17_Witness ==
    /\ regName = "constraint" /\ regPath = <<>>
    /\ regNode.o["$id"] = JStr("https://schemas.astra.dev/v1/constraint.json")
    /\ regNode.o.title = JStr("Constraint")

\* the closed records: the registry entries of these names
ClosedRecords == {"act", "conversation"} \cup {TagOf(c) : c \in ActClasses}

ActSchemaNames == {"act"} \cup {TagOf(c) : c \in ActClasses}

\* the open records: where each sits in the registry
OpenRecords ==
    {<<n, <<"properties", "metadata">>>> : n \in ActSchemaNames}
    \cup {<<n, <<"properties", "entity", "oneOf", "1", "properties", "metadata">>>> :
            n \in {"fact", "confirm", "commit"}}
    \cup {<<"entity", <<"properties", "metadata">>>>,
          <<"participant", <<"properties", "preferences">>>>,
          <<"participant", <<"properties", "metadata">>>>,
          <<"conversation", <<"properties", "participants", "items",
                              "properties", "preferences">>>>,
          <<"conversation", <<"properties", "participants", "items",
                              "properties", "metadata">>>>,
          <<"conversation", <<"properties", "context">>>>,
          <<"conversation", <<"properties", "final_state">>>>,
          <<"conversation", <<"properties", "metadata">>>>,
          <<"commit", <<"properties", "rollback_info">>>>,
          <<"error", <<"properties", "details">>>>}

\* C18: in the registry every schema of a closed record (act, the five
\* variants, conversation) has additionalProperties: false, and every
\* schema of an open record (the metadata of acts, entities, participants
\* and conversations, participant preferences, conversation context and
\* final_state, Commit.rollback_info, Error.details) has
\* additionalProperties: true written out.
C18_AdditionalPropertiesDeclared ==
    regName # "" =>
      /\ (regPath = <<>> /\ regName \in ClosedRecords) =>
            /\ Has(regNode, "additionalProperties")
            /\ regNode.o.additionalProperties = JBool(FALSE)
      /\ (<<regName, regPath>> \in OpenRecords) =>
            /\ Has(regNode, "additionalProperties")
            /\ regNode.o.additionalProperties = JBool(TRUE)

\* C15: the package exposes validate: importing it from the package
\* succeeds.
C15_ValidateExposed ==
    (fn = "import" /\ args = JStr("validate")) => ret = Imported("validate")

\* a prefix followed by exactly twelve characters of 0-9a-f
PrefixAndTwelveHex(prefix, s) ==
    /\ StartsWith(s, prefix)
    /\ Len(s) = Len(prefix) + 12
    /\ \A i \in (Len(prefix) + 1)..Len(s) : Char(s, i) \in HexChars

\* C19: whatever UUID is drawn, generate_act_id() returns act_ followed by
\* exactly twelve characters of 0-9a-f, which matches
\* ^act_[A-Za-z0-9_-]+$, and generate_conversation_id() returns conv_
\* followed by exactly twelve such characters, which matches
\* ^conv_[A-Za-z0-9_-]+$.
C19_GeneratedIdsMatch ==
    /\ fn = "generate_act_id" =>
          /\ ret.k = "str"
          /\ PrefixAndTwelveHex("act_", ret.s)
          /\ Matches(ActIdPattern, ret.s)
    /\ fn = "generate_conversation_id" =>
          /\ ret.k = "str"
          /\ PrefixAndTwelveHex("conv_", ret.s)
          /\ Matches(ConversationIdPattern, ret.s)

C19_Witness ==
    /\ fn = "generate_conversation_id"
    /\ env.uuid4 = "f1b9d6bc-bbdf-4b2d-bb5d-ab8dfbbd4bed"
    /\ ret = JStr("conv_f1b9d6bcbbdf")

BaseActKeys == {"id", "timestamp", "speaker", "type"}

\* the keys of the additional_fields argument (none when it is omitted)
AdditionalKeys ==
    IF args.additional_fields.k = "obj"
    THEN DOMAIN args.additional_fields.o ELSE {}

\* C20 as stated: the object create_base_act returns has the keys id,
\* timestamp, speaker and type, its speaker and type are the arguments and
\* its id is a generated act id; it has every key of additional_fields with
\* the caller's value, and exactly the four keys when additional_fields is
\* omitted or empty.
C20_BaseActAsStated ==
    fn = "create_base_act" =>
      /\ ret.k = "obj"
      /\ BaseActKeys \subseteq DOMAIN ret.o
      /\ ret.o.speaker = args.speaker
      /\ ret.o.type = args.act_type
      /\ ret.o.id.k = "str" /\ PrefixAndTwelveHex("act_", ret.o.id.s)
      /\ \A n \in AdditionalKeys : ret.o[n] = args.additional_fields.o[n]
      /\ AdditionalKeys = {} => DOMAIN ret.o = BaseActKeys

\* C20, amended: the object has exactly the keys id, timestamp, speaker
\* and type and the keys of additional_fields; every key of
\* additional_fields has the caller's value; speaker and type are the
\* arguments and id is a generated act id wherever additional_fields does
\* not name that key; the arguments are taken as they are.
C20_BaseActMerged ==
    fn = "create_base_act" =>
      /\ ret.k = "obj"
      /\ DOMAIN ret.o = BaseActKeys \cup AdditionalKeys
      /\ \A n \in AdditionalKeys : ret.o[n] = args.additional_fields.o[n]
      /\ "speaker" \notin AdditionalKeys => ret.o.speaker = args.speaker
      /\ "type" \notin AdditionalKeys => ret.o.type = args.act_type
      /\ "id" \notin AdditionalKeys =>
            /\ ret.o.id = JStr(generate_act_id(env.uuid4))
            /\ PrefixAndTwelveHex("act_", ret.o.id.s)
      /\ "timestamp" \notin AdditionalKeys => ret.o.timestamp.k = "str"

C20_Witness ==
    /\ fn = "create_base_act"
    /\ args.speaker = JStr("") /\ args.act_type = JStr("bogus")
    /\ args.additional_fields = Obj2("confidence", JNum(1), "field", JStr("email"))
    /\ DOMAIN ret.o = BaseActKeys \cup {"confidence", "field"}
    /\ ret.o.confidence = JNum(1)
    /\ ret.o.speaker = JStr("") /\ ret.o.type = JStr("bogus")

\* the number a string of decimal digits writes
DigitValue(c) == CHOOSE n \in 0..9 : ToString(n) = c
RECURSIVE NumberUpTo(_, _)
NumberUpTo(s, i) ==
    IF i = 0 THEN 0 ELSE 10 * NumberUpTo(s, i - 1) + DigitValue(Char(s, i))
NumberOf(s) == NumberUpTo(s, Len(s))

\* the instant an ISO-8601 string of January 2025 with the suffix Z denotes:
\* its date and time read as UTC
InstantOf(ts) ==
    [day |-> NumberOf(SubSeq(ts, 9, 10)),
     hour |-> NumberOf(SubSeq(ts, 12, 13)),
     microsecond |-> IF Char(ts, 20) = "." THEN NumberOf(SubSeq(ts, 21, 26))
                     ELSE 0]

\* C21: the timestamp create_base_act produces ends with Z and, read as
\* UTC, denotes the instant of the call, whatever the host's offset from
\* UTC is.
C21_TimestampIsUtcInstant ==
    (fn = "create_base_act" /\ "timestamp" \notin AdditionalKeys) =>
      /\ ret.o.timestamp.k = "str"
      /\ Char(ret.o.timestamp.s, Len(ret.o.timestamp.s)) = "Z"
      /\ InstantOf(ret.o.timestamp.s)
            = [day |-> 15, hour |-> env.now.hour,
               microsecond |-> env.now.microsecond]


\* the functions the package binds; every other callable it binds is a class
\* of types.py, and those declare fields only, no method
PackageFunctions ==
    {"generate_act_id", "generate_conversation_id", "create_base_act"}

\* C22: the package exposes an operation that evaluates a list of
\* constraints against a candidate value and returns every violation:
\* importing such a function from the package succeeds, and it is one of
\* the functions the package binds.
C22_ConstraintEvaluationExposed ==
    (fn = "import" /\ args = JStr("evaluate_constraints")) =>
      /\ ret = Imported("evaluate_constraints")
      /\ "evaluate_constraints" \in PackageFunctions


\* C23: an Act or a Conversation is immutable once constructed: whatever
\* the caller assigns to a field or appends to acts, the instance held is
\* the one that was decoded (status and the contents and order of acts
\* included).
C23_Immutable ==
    (pc = "assigned" /\ cls \in ActClasses \cup {"Conversation"}) =>
      held = decoded.v


\* the defaults the fields are documented with: <<class, field, value>>
DocumentedDefaults ==
    {<<"Ask", "required", JBool(TRUE)>>, <<"Ask", "retry_count", JNum(0)>>,
     <<"Ask", "max_retries", JNum(3)>>, <<"Fact", "operation", PyEnum("set")>>,
     <<"Fact", "validation_status", PyEnum("pending")>>,
     <<"Confirm", "awaiting", JBool(TRUE)>>,
     <<"Commit", "status", PyEnum("pending")>>,
     <<"Commit", "retry_count", JNum(0)>>, <<"Commit", "max_retries", JNum(3)>>,
     <<"Error", "severity", PyEnum("error")>>,
     <<"Conversation", "status", PyEnum("active")>>}

\* C24: a decoded value whose document omits a field documented with a
\* default carries that default (Ask.required true, retry_count 0,
\* max_retries 3, Fact.operation set, ..., Conversation.status active).
C24_OmittedFieldsCarryDefaults ==
    (pc = "decoded" /\ decoded.ok) =>
      \A d \in DocumentedDefaults :
         (d[1] = cls /\ d[2] \notin DOMAIN doc.o) => decoded.v.f[d[2]] = d[3]


\* the model class each of these registry schemas describes
ModelOfSchema(n) ==
    CASE n = "conversation" -> "Conversation" [] n = "entity" -> "Entity"
      [] n = "participant" -> "Participant" [] n = "constraint" -> "Constraint"
      [] OTHER -> ClassOfTag(n)

ModelledSchemas ==
    {"conversation", "entity", "participant", "constraint"}
    \cup {TagOf(c) : c \in ActClasses}

\* a schema that admits no key beyond its properties
Closed(schema) ==
    Has(schema, "additionalProperties")
    /\ schema.o.additionalProperties = JBool(FALSE)

\* C25: for each of Conversation, Entity, Participant, Constraint and the
\* five variants, the registry schema and the model permit the same
\* top-level keys: the schema's properties are the model's field names, and
\* the schema is closed exactly when the model rejects an undeclared key.
C25_SameTopLevelKeys ==
    (regName \in ModelledSchemas /\ regPath = <<>>) =>
      /\ DOMAIN regNode.o.properties.o = FieldNames(ModelOfSchema(regName))
      /\ Closed(regNode) <=> ModelExtra(ModelOfSchema(regName)) = "forbid"


\* the annotation with Optional[...] taken off
Unwrap(ty) == IF ty.t = "opt" THEN ty.of ELSE ty

RECURSIVE TypeAt(_, _)
\* the annotation the model declares where a schema path leads:
\* properties/<n> is field n of the model class, items the element of a list
TypeAt(ty, path) ==
    LET u == Unwrap(ty)
    IN  IF path = <<>> THEN u
        ELSE IF path[1] = "properties" /\ u.t = "model"
                /\ path[2] \in FieldNames(u.cls)
        THEN TypeAt(FieldOf(u.cls, path[2]).ty, SubSeq(path, 3, Len(path)))
        ELSE IF path[1] = "items" /\ u.t = "list" THEN TypeAt(u.of, Tail(path))
        ELSE TAny

\* the strings a schema lists under enum
EnumStrings(schema) == {schema.o.enum.a[i].s : i \in DOMAIN schema.o.enum.a}

\* the closed enumerations of the model
ClosedEnums ==
    {ActType, Source, ConstraintType, ExpectedType, FieldOperation,
     ValidationStatus, ConfirmationMethod, CommitAction, CommitStatus,
     ErrorSeverity, ErrorCategory, SuggestedAction, ParticipantType,
     ConversationStatus}

\* the model class of a registry entry, act included
ClassOfSchema(n) == IF n = "act" THEN "Act" ELSE ModelOfSchema(n)

\* C26: every closed enumeration has the same strings in the model and in
\* the registry: wherever a schema lists an enum, the model declares an
\* enumeration at the same place, with exactly the listed strings as its
\* values, and each of the fourteen enumerations is listed by some schema.
C26_EnumsAgree ==
    /\ \A E \in ClosedEnums :
          \E n \in DOMAIN SCHEMAS : \E p \in DOMAIN SCHEMAS[n].o.properties.o :
             /\ Has(SCHEMAS[n].o.properties.o[p], "enum")
             /\ EnumStrings(SCHEMAS[n].o.properties.o[p]) = E
    /\ (regName \in DOMAIN SCHEMAS /\ Has(regNode, "enum")) =>
          LET ty == TypeAt(TModel(ClassOfSchema(regName)), regPath)
          IN  /\ ty.t = "enum"
              /\ ty.vals \in ClosedEnums
              /\ \A str \in ty.vals \cup EnumStrings(regNode) :
                    str \in ty.vals <=> str \in EnumStrings(regNode)

C26_Witness ==
    /\ regName = "commit" /\ regPath = <<"properties", "status">>
    /\ EnumStrings(regNode) = CommitStatus
    /\ Cardinality(EnumStrings(regNode)) = 6


RECURSIVE DelAt(_, _)
\* j without the key a path of keys leads to
DelAt(j, path) ==
    IF Len(path) = 1 THEN JObj(Del(j.o, path[1]))
    ELSE JObj(Put(j.o, path[1], DelAt(j.o[path[1]], Tail(path))))

\* where a document of class c carries a number bounded to 0..1
UnitKeys(c) == IF c \in ActClasses THEN {<<"confidence">>} ELSE {}

\* where a document of class c carries a number bounded below by 0
CountKeys(c) ==
    CASE c \in {"Ask", "Commit"} -> {<<"retry_count">>, <<"max_retries">>}
      [] c = "Confirm" -> {<<"timeout_ms">>}
      [] c = "Conversation" ->
            {<<"metadata", n>> : n \in {"total_duration_ms", "act_count",
                                         "error_count", "commit_count"}}
      [] OTHER -> {}

\* C27: the numeric bounds are enforced at construction, ends included: a
\* document carrying a number under confidence, retry_count, max_retries,
\* timeout_ms or a count of the conversation metadata is accepted exactly
\* when the number is within its bounds (0 <= confidence <= 1, 0 <= the
\* others) and the document without that key is accepted.
C27_BoundsInclusive ==
    pc = "decoded" =>
      \A p \in UnitKeys(cls) \cup CountKeys(cls) :
         At(doc, p).k = "num" =>
           LET n == At(doc, p).n
               within == n >= 0 /\ (p \in UnitKeys(cls) => n <= 1)
           IN  decoded.ok <=> (within /\ Redecode(cls, DelAt(doc, p)).ok)

C27_Witness ==
    /\ pc = "decoded" /\ cls = "Commit"
    /\ At(doc, <<"retry_count">>) = JNum(0)
    /\ At(doc, <<"confidence">>) = JNum(1)
    /\ decoded.ok
    /\ decoded.v.f.retry_count = JNum(0)


RECURSIVE KeyPaths(_)
\* where the keys of a JSON value are: each key of each object in it, with
\* the keys and positions leading to it
KeyPaths(j) ==
    CASE j.k = "obj" ->
            UNION {{<<n>>} \cup {<<n>> \o p : p \in KeyPaths(j.o[n])} :
                     n \in DOMAIN j.o}
      [] j.k = "arr" ->
            UNION {{<<ToString(i - 1)>> \o p : p \in KeyPaths(j.a[i])} :
                     i \in DOMAIN j.a}
      [] OTHER -> {}

\* C28: decoding never silently drops input: a document is rejected, or
\* every key of it, at whatever depth (the keys of a nested Constraint,
\* RangeConstraint and CommitError included), is a key of the encoding of
\* the decoded value.
C28_NoKeyDropped ==
    Dumped => KeyPaths(doc) \subseteq KeyPaths(encoded)


\* the key each variant requires and no other variant declares
OwnKey(c) ==
    CASE c = "Ask" -> "prompt" [] c = "Fact" -> "value"
      [] c = "Confirm" -> "summary" [] c = "Commit" -> "action"
      [] c = "Error" -> "code"

\* the act documents a decoder has been handed: the document itself, or the
\* elements of a conversation's acts
ActsHanded ==
    IF cls \in ActClasses THEN {doc}
    ELSE IF cls = "Conversation" /\ Has(doc, "acts") /\ doc.o.acts.k = "arr"
    THEN {doc.o.acts.a[i] : i \in DOMAIN doc.o.acts.a}
    ELSE {}

\* the members of a union in the opposite order
Reversed(tys) == [i \in DOMAIN tys |-> tys[Len(tys) + 1 - i]]

\* C29: the five variants are pairwise disjoint: each requires a key
\* (prompt, value, summary, action, code) that every other variant does not
\* declare and so rejects, no act document is accepted by more than one
\* variant, and the union decodes it to the same result with its members
\* tried in the opposite order (the first member that accepts is then the
\* last, so the two orders agree only if at most one accepts).
C29_VariantsDisjoint ==
    /\ \A c \in ActClasses :
          /\ FieldOf(c, OwnKey(c)).req
          /\ \A d \in ActClasses \ {c} :
                OwnKey(c) \notin FieldNames(d) /\ ModelExtra(d) = "forbid"
    /\ pc = "decoded" =>
          \A j \in ActsHanded :
             /\ Cardinality({c \in ActClasses : Redecode(c, j).ok}) <= 1
             /\ ValidateUnion(Reversed(ConversationAct.of), j)
                   = ValidateUnion(ConversationAct.of, j)

C29_Witness ==
    /\ pc = "decoded" /\ cls = "Conversation" /\ decoded.ok
    /\ Len(decoded.v.f.acts.a) = 2
    /\ decoded.v.f.acts.a[1].cls = "Error"
    /\ decoded.v.f.acts.a[2].cls = "Ask"
    /\ {c \in ActClasses : Redecode(c, doc.o.acts.a[1]).ok} = {"Error"}


\* the value create_base_act gives a base key before additional_fields is
\* merged in
BaseValue(n) ==
    CASE n = "id" -> JStr(generate_act_id(env.uuid4))
      [] n = "timestamp" -> JStr(Isoformat(Now(env.now)) \o "Z")
      [] n = "speaker" -> args.speaker
      [] n = "type" -> args.act_type

\* C30: in create_base_act the caller's additional fields take precedence
\* over the base fields: each of id, timestamp, speaker and type carries the
\* value additional_fields gives it when additional_fields names the key
\* (and then not the generated id, the timestamp of the call or the speaker
\* and act_type arguments, where these differ), and its base value when it
\* does not.
C30_AdditionalFieldsTakePrecedence ==
    fn = "create_base_act" =>
      \A n \in BaseActKeys :
         IF n \in AdditionalKeys
         THEN /\ ret.o[n] = args.additional_fields.o[n]
              /\ args.additional_fields.o[n] # BaseValue(n) =>
                    ret.o[n] # BaseValue(n)
         ELSE ret.o[n] = BaseValue(n)

C30_Witness ==
    /\ fn = "create_base_act"
    /\ args.speaker = JStr("speaker_123") /\ args.act_type = PyEnum("ask")
    /\ args.additional_fields = JObj("speaker" :> JStr("other"))
    /\ ret.o.speaker = JStr("other")
    /\ ret.o.type = PyEnum("ask")
    /\ ret.o.id = JStr(generate_act_id(env.uuid4))

====
